---- MODULE Spec2Model ----
(***************************************************************************)
(* A model of the Avida 5 virtual machine (source/Hardware/AvidaVM.hpp),   *)
(* its stacks (source/Hardware/VMStack.hpp), its genome (source/Genome.hpp)*)
(* and the dispatch of its default instruction set                         *)
(* (source/Hardware/InstSet.hpp).                                          *)
(*                                                                         *)
(* Representation of the machine integers:                                 *)
(*   data_t (int, 32 bits)  : an integer in INT_MIN..INT_MAX; arithmetic   *)
(*                            wraps modulo 2^32 (AddW, SubW, MultW, ShiftL)*)
(*   size_t (64 bits) heads : the signed integer s that is congruent to    *)
(*                            the head position modulo 2^64, so 2^64-1 is  *)
(*                            -1 and ++ and -- are s+1 and s-1; unsigned   *)
(*                            comparisons are ULess/UInRange.  int->size_t *)
(*                            (sign extension) and size_t->int (truncation)*)
(*                            are then both s |-> s.                       *)
(***************************************************************************)
EXTENDS Integers, Sequences, FiniteSets, TLC

\* ---------------------------------------------------------------- constants
NUM_NOPS == 6
STACK_DEPTH == 16
MEM_SIZE == 64
MAX_GENOME_SIZE == 2048
DATA_BITS == 32
INT_MAX == 2147483647
INT_MIN == (-2147483647) - 1

\* Number of entries registered by BuildInstSet (6 nops + 32 instructions).
NUM_INSTS == 38
\* InstSet::NULL_ID narrowed to a genome byte (what BuildGenome pushes for an
\* unknown symbol): static_cast<uint8_t>(65535).
NULL_BYTE == 255

HEAD_IP == 0
HEAD_G_READ == 1
HEAD_G_WRITE == 2
HEAD_M_READ == 3
HEAD_M_WRITE == 4
HEAD_FLOW == 5

\* Ids of the default instruction set, in registration order.
ID_Const == 6
ID_Offset == 7
ID_Not == 8
ID_Shift == 9
ID_Add == 10
ID_Sub == 11
ID_Mult == 12
ID_Div == 13
ID_Mod == 14
ID_Exp == 15
ID_Sort == 16
ID_TestLess == 17
ID_TestEqu == 18
ID_Nand == 19
ID_Xor == 20
ID_If == 21
ID_IfNot == 22
ID_Scope == 23
ID_Continue == 24
ID_Break == 25
ID_StackPop == 26
ID_StackDup == 27
ID_StackSwap == 28
ID_StackMove == 29
ID_CopyInst == 30
ID_Load == 31
ID_Store == 32
ID_DivideCell == 33
ID_HeadPos == 34
ID_SetHead == 35
ID_JumpHead == 36
ID_OffsetHead == 37

\* const_vals[i] of the source is const_vals[i+1] here.
const_vals == <<1, 2, 4, 16, 256, -1>>

\* ------------------------------------------------------- 32-bit arithmetic
\* X + Y in int, wrapping modulo 2^32.
AddW(x, y) ==
  IF x >= 0 /\ y >= 0 /\ x > INT_MAX - y THEN (x + INT_MIN) + (y + INT_MIN)
  ELSE IF x < 0 /\ y < 0 /\ x < INT_MIN - y THEN (x - INT_MIN) + (y - INT_MIN)
  ELSE x + y

\* -X in int, wrapping.
NegW(x) == IF x = INT_MIN THEN INT_MIN ELSE -x

\* X - Y in int, wrapping modulo 2^32.
SubW(x, y) == IF y = INT_MIN THEN AddW(AddW(x, INT_MAX), 1) ELSE AddW(x, -y)

\* X << n for 0 <= n < 32, keeping the low 32 bits.
RECURSIVE ShiftL(_, _)
ShiftL(x, n) == IF n = 0 THEN x ELSE ShiftL(AddW(x, x), n - 1)

\* x * y for y >= 0, wrapping (shift-and-add over the bits of y).
RECURSIVE MultNat(_, _)
MultNat(x, y) ==
  IF y = 0 THEN 0
  ELSE AddW(IF y % 2 = 1 THEN x ELSE 0, MultNat(AddW(x, x), y \div 2))

\* X * Y in int, wrapping modulo 2^32.
MultW(x, y) ==
  IF y = INT_MIN THEN ShiftL(x, 31)
  ELSE IF y < 0 THEN NegW(MultNat(x, -y))
  ELSE MultNat(x, y)

\* X / Y of C++ (truncation toward zero) for Y # 0 and (X,Y) # (INT_MIN,-1).
DivPos(x, y) == IF x >= 0 THEN x \div y ELSE -(((-(x + 1)) \div y)) - (IF (-(x + 1)) % y = y - 1 THEN 1 ELSE 0)
TruncDiv(x, y) ==
  IF y > 0 THEN DivPos(x, y)
  ELSE IF y = INT_MIN THEN (IF x = INT_MIN THEN 1 ELSE 0)
  ELSE -DivPos(x, -y)

\* X % Y of C++ (sign of the dividend).
TruncMod(x, y) == x - TruncDiv(x, y) * y

\* Bitwise operators on two's-complement integers.
BitNot(x) == IF x >= 0 THEN (-x) - 1 ELSE -(x + 1)
RECURSIVE BitAnd(_, _)
BitAnd(x, y) ==
  IF x = 0 \/ y = 0 THEN 0
  ELSE IF x = -1 THEN y
  ELSE IF y = -1 THEN x
  ELSE 2 * BitAnd((x - (x % 2)) \div 2, (y - (y % 2)) \div 2) + ((x % 2) * (y % 2))
BitXor(x, y) ==
  LET a == BitAnd(x, y)
      o == BitNot(BitAnd(BitNot(x), BitNot(y)))
  IN  BitAnd(o, BitNot(a))

\* emp::Mod(in, mod): the non-negative remainder.
EmpMod(x, m) == x % m

\* emp::Pow(base, p) on integers: 1 for p <= 0, else square-and-multiply.
RECURSIVE EmpPow(_, _)
EmpPow(base, p) ==
  IF p <= 0 THEN 1
  ELSE IF p % 2 = 1 THEN MultW(base, EmpPow(base, p - 1))
  ELSE LET h == EmpPow(base, p \div 2) IN MultW(h, h)

\* --------------------------------------------------- size_t comparisons
\* a < b on size_t values (negative representatives are the values >= 2^63).
ULess(a, b) ==
  IF a >= 0 /\ b >= 0 THEN a < b
  ELSE IF a < 0 /\ b < 0 THEN a < b
  ELSE a >= 0

\* pos < size for a container size.
UInRange(pos, size) == pos >= 0 /\ pos < size

\* ------------------------------------------------------------------ VMStack
NewStack == [stack |-> [i \in 0..(STACK_DEPTH - 1) |-> 0], stack_pos |-> 0]

\* VMStack::Reset that rewinds stack_pos and leaves the slots as they are.
StackReset_PosOnly(s) == [s EXCEPT !.stack_pos = 0]

StackReset(s) == [stack |-> [i \in 0..(STACK_DEPTH - 1) |-> 0], stack_pos |-> 0]

\* Push that advances stack_pos without the % STACK_DEPTH.
Push_NoWrap(s, value) ==
  [stack |-> [s.stack EXCEPT ![s.stack_pos] = value],
   stack_pos |-> s.stack_pos + 1]

Push(s, value) ==
  [stack |-> [s.stack EXCEPT ![s.stack_pos] = value],
   stack_pos |-> (s.stack_pos + 1) % STACK_DEPTH]

\* Pop of a stack with a bottom: stack_pos stays at 0.
Pop_Bottom(s) ==
  LET p == IF s.stack_pos = 0 THEN 0 ELSE s.stack_pos - 1
  IN  [stk |-> [s EXCEPT !.stack_pos = p], val |-> s.stack[p]]

\* Pop returns the new stack and the value read.
Pop(s) ==
  LET p == IF s.stack_pos = 0 THEN STACK_DEPTH - 1 ELSE s.stack_pos - 1
  IN  [stk |-> [s EXCEPT !.stack_pos = p], val |-> s.stack[p]]

Top(s) == s.stack[IF s.stack_pos # 0 THEN s.stack_pos - 1 ELSE STACK_DEPTH - 1]

\* ------------------------------------------------------------------- Genome
\* StateGenome::Insert(pos, value) for 0 <= pos < size.
GenomeInsert(g, pos, value) ==
  SubSeq(g, 1, pos) \o <<value>> \o SubSeq(g, pos + 1, Len(g))

\* StateGenome::Copy(start_pos, count).
GenomeCopy(g, start_pos, count) == SubSeq(g, start_pos + 1, start_pos + count)

\* StateGenome::Erase(start_pos, count).
GenomeErase(g, start_pos, count) ==
  SubSeq(g, 1, start_pos) \o SubSeq(g, start_pos + count + 1, Len(g))

\* Extract that copies the range but does not erase it.
Extract_CopyOnly(g, start_pos, count) ==
  [out |-> GenomeCopy(g, start_pos, count), rest |-> g]

\* StateGenome::Extract(start_pos, count): the copy and what is left.
Extract(g, start_pos, count) ==
  [out |-> GenomeCopy(g, start_pos, count), rest |-> GenomeErase(g, start_pos, count)]

\* ------------------------------------------------------------------ InstSet
\* AvidaVM::MAX_INSTS, the MAX_SET_SIZE of AvidaVM::inst_set_t.
MAX_INSTS == 256
\* InstSet::NULL_ID: static_cast<inst_id_t>(-1), inst_id_t being the smallest
\* unsigned type with MAX_SET_SIZE + 1 values (16 bits).
NULL_ID == 65535

\* Characters are their codes; a string is a sequence of codes.
CH_a == 97
CH_A == 65
CH_0 == 48
CH_QM == 63

\* The values an InstInfo::id that no statement wrote can have: the member has
\* no initialiser, so it is whatever the storage held, any inst_id_t.
IndeterminateIds == 0..NULL_ID

\* The two builds of emp_assert: checked ("debug") or compiled out
\* ("release").
Builds == {"debug", "release"}

\* An InstSet is a record
\*   [info, funs, num_nops, aborted]
\* where info and funs hold the first num_insts entries of the two arrays
\* (entry i at index i + 1), the entries behind them being default
\* constructed, and aborted tells that an emp_assert ended the process.
num_insts(iset) == Len(iset.info)

\* InstSet(): empty arrays, num_insts = 0, num_nops = 0.
NewInstSet == [info |-> <<>>, funs |-> <<>>, num_nops |-> 0, aborted |-> FALSE]

\* info[i] for any i of the array: a registered entry, or the default
\* InstInfo (empty name, indeterminate id, symbol '?').
InfoAt(iset, i, junk) ==
  IF i < num_insts(iset) THEN iset.info[i + 1]
  ELSE [name |-> "", id |-> junk, symbol |-> CH_QM]

\* The symbol AddInst gives to the entry it registers at index n.
SymbolFor(n) ==
  IF n < 26 THEN CH_a + n
  ELSE IF n < 52 THEN CH_A + (n - 26)
  ELSE IF n < 62 THEN CH_0 + (n - 52)
  ELSE CH_QM

\* InstSet::AddInst(name, fun).  A full set fails the emp_assert; without the
\* assertion the write is past the arrays, and no state after it is modelled.
AddInst(iset, name, fun) ==
  IF num_insts(iset) >= MAX_INSTS THEN [iset EXCEPT !.aborted = TRUE]
  ELSE [iset EXCEPT
          !.info = Append(@, [name |-> name, id |-> num_insts(iset),
                              symbol |-> SymbolFor(num_insts(iset))]),
          !.funs = Append(@, fun)]

\* InstSet::AddNopInst(name): the emp_assert, then AddInst(name, nullptr) and
\* ++num_nops.
AddNopInst(iset, name, build) ==
  IF iset.num_nops # num_insts(iset) /\ build = "debug"
  THEN [iset EXCEPT !.aborted = TRUE]
  ELSE [AddInst(iset, name, "nullptr") EXCEPT !.num_nops = @ + 1]

\* The smallest index of a non-empty set of indices: where a loop over info
\* returns.
FirstEntry(hits) == CHOOSE i \in hits : \A j \in hits : i <= j

\* InstSet::GetID(name): the loop runs over the whole info array, so the
\* first default-constructed entry answers for the empty name.
GetIDName(iset, name, junk) ==
  LET hits == {i \in 1..num_insts(iset) : iset.info[i].name = name}
  IN  IF hits # {} THEN iset.info[FirstEntry(hits)].id
      ELSE IF name = "" /\ num_insts(iset) < MAX_INSTS THEN junk
      ELSE NULL_ID

\* InstSet::GetID(symbol), likewise for the symbol '?'.
GetIDSymbol(iset, symbol, junk) ==
  LET hits == {i \in 1..num_insts(iset) : iset.info[i].symbol = symbol}
  IN  IF hits # {} THEN iset.info[FirstEntry(hits)].id
      ELSE IF symbol = CH_QM /\ num_insts(iset) < MAX_INSTS THEN junk
      ELSE NULL_ID

\* The values of the unwritten id that GetID(name) can return: all of them
\* when the loop ends on an unused entry, and none that matters otherwise.
UnwrittenIdsName(iset, name) ==
  IF GetIDName(iset, name, 0) = GetIDName(iset, name, 1) THEN {0}
  ELSE IndeterminateIds

\* Likewise for GetID(symbol) on the symbols of a sequence.
UnwrittenIdsSymbols(iset, sequence) ==
  IF \A n \in 1..Len(sequence) :
       GetIDSymbol(iset, sequence[n], 0) = GetIDSymbol(iset, sequence[n], 1)
  THEN {0}
  ELSE IndeterminateIds

\* GetSymbol that recomputes a lower-case letter from the id.
GetSymbol_FromId(iset, id) == CH_a + id

\* InstSet::GetSymbol(id) for id < MAX_SET_SIZE.
GetSymbol(iset, id) == InfoAt(iset, id, 0).symbol

\* Genome::Push(state_t val): the id is narrowed to the genome's 8-bit state.
GenomePush(g, val) == Append(g, val % 256)

\* InstSet::BuildGenome(sequence).
BuildGenome(iset, sequence, junk) ==
  LET built[n \in 0..Len(sequence)] ==
        IF n = 0 THEN <<>>
        ELSE GenomePush(built[n - 1], GetIDSymbol(iset, sequence[n], junk))
  IN  built[Len(sequence)]

\* InstSet::ToSequence(genome).
ToSequence(iset, g) == [i \in 1..Len(g) |-> GetSymbol(iset, g[i])]

\* The names AvidaVM::BuildInstSet registers, in order.
NopNames == <<"Nop-A", "Nop-B", "Nop-C", "Nop-D", "Nop-E", "Nop-F">>

InstNames ==
  << "Const", "Offset", "Not", "Shift", "Add", "Sub", "Mult", "Div", "Mod",
     "Exp", "Sort", "TestLess", "TestEqu", "Nand", "Xor", "If", "IfNot",
     "Scope", "Continue", "Break", "StackPop", "StackDup", "StackSwap",
     "StackMove", "CopyInst", "Load", "Store", "DivideCell", "HeadPos",
     "SetHead", "JumpHead", "OffsetHead" >>

\* AvidaVM::BuildInstSet(); a handler is named by its instruction.
BuildInstSet ==
  LET nops[i \in 0..Len(NopNames)] ==
        IF i = 0 THEN NewInstSet
        ELSE AddNopInst(nops[i - 1], NopNames[i], "debug")
      all[i \in 0..Len(InstNames)] ==
        IF i = 0 THEN nops[Len(NopNames)]
        ELSE AddInst(all[i - 1], InstNames[i], InstNames[i])
  IN  all[Len(InstNames)]

\* The value of AtScopeLimit's function-local static before its first
\* initialisation.
NO_SCOPE == -1

\* inst_set.GetID("Scope") stored in an AvidaVM::inst_id_t (8 bits).
ScopeIdOf(iset) == GetIDName(iset, "Scope", 0) % 256

\* --------------------------------------------------------- helper functions
\* A machine state vm is a record
\*   [genome, offspring, memory, heads, stacks, error_count, fault,
\*    inst_scope_id]
\* whose last field is the static of AtScopeLimit as the machine finds it.
ReadGenome(vm, pos) ==
  IF UInRange(pos, Len(vm.genome)) THEN vm.genome[pos + 1] ELSE 0

ReadMemory(vm, pos) ==
  IF UInRange(pos, MEM_SIZE) THEN vm.memory[pos] ELSE 0

\* WriteGenome that overwrites the byte at a position inside the genome.
WriteGenome_Overwrite(vm, pos, id) ==
  IF UInRange(pos, Len(vm.genome))
  THEN [vm EXCEPT !.genome[pos + 1] = id]
  ELSE [vm EXCEPT !.genome = Append(@, id)]

WriteGenome(vm, pos, id) ==
  IF UInRange(pos, Len(vm.genome))
  THEN [vm EXCEPT !.genome = GenomeInsert(@, pos, id)]
  ELSE [vm EXCEPT !.genome = Append(@, id)]

\* WriteMemory that drops an out-of-range write without counting it (what
\* VMHead::Write does).
WriteMemory_Silent(vm, pos, data) ==
  IF UInRange(pos, MEM_SIZE)
  THEN [vm EXCEPT !.memory[pos] = data]
  ELSE vm


WriteMemory(vm, pos, data) ==
  IF UInRange(pos, MEM_SIZE)
  THEN [vm EXCEPT !.memory[pos] = data]
  ELSE [vm EXCEPT !.error_count = @ + 1]

IP(vm) == vm.heads[HEAD_IP]
ReadIP(vm) == ReadGenome(vm, IP(vm))
AdvanceIP(vm) == [vm EXCEPT !.heads[HEAD_IP] = @ + 1]

\* GetArg that returns the nop it finds but leaves IP on it.
GetArg_NoAdvance(vm, default_arg) ==
  LET out_val == ReadIP(vm)
  IN  IF out_val < NUM_NOPS
      THEN [vm |-> vm, val |-> out_val]
      ELSE [vm |-> vm, val |-> default_arg]

\* GetArg returns the state after the call (vm) and the argument (val).
GetArg(vm, default_arg) ==
  LET out_val == ReadIP(vm)
  IN  IF out_val < NUM_NOPS
      THEN [vm |-> AdvanceIP(vm), val |-> out_val]
      ELSE [vm |-> vm, val |-> default_arg]

\* GetStackArg / GetHeadArg select stacks[GetArg(d)] / heads[GetArg(d)]; the
\* reference is the index val.
GetStackArg(vm, default_arg) == GetArg(vm, default_arg)
GetHeadArg(vm, default_head) == GetArg(vm, default_head)

\* stacks[id].Push(v) and stacks[id].Pop() on the machine state.
VMPush(vm, id, v) == [vm EXCEPT !.stacks[id] = Push(@, v)]
VMPop(vm, id) ==
  LET r == Pop(vm.stacks[id])
  IN  [vm |-> [vm EXCEPT !.stacks[id] = r.stk], val |-> r.val]

RECURSIVE HasArgFrom(_, _, _)
HasArgFrom(vm, pos, arg) ==
  IF UInRange(pos, Len(vm.genome)) /\ vm.genome[pos + 1] < NUM_NOPS
  THEN IF vm.genome[pos + 1] = arg THEN TRUE ELSE HasArgFrom(vm, pos + 1, arg)
  ELSE FALSE

HasArg(vm, arg) == HasArgFrom(vm, IP(vm) + 1, arg)

\* static const inst_id_t inst_scope_id = inst_set.GetID("Scope"): the first
\* call of AtScopeLimit in the process initialises it, from the InstSet of the
\* machine that makes the call (here the default set); later calls read it.
WithScopeId(vm) ==
  IF vm.inst_scope_id = NO_SCOPE
  THEN [vm EXCEPT !.inst_scope_id = ScopeIdOf(BuildInstSet)]
  ELSE vm

AtScopeLimit(vm, target_scope) ==
  (ReadIP(vm) = WithScopeId(vm).inst_scope_id) /\ HasArg(vm, target_scope)

RECURSIVE SkipNops(_)
SkipNops(vm) ==
  IF UInRange(IP(vm), Len(vm.genome)) /\ vm.genome[IP(vm) + 1] < NUM_NOPS
  THEN SkipNops(AdvanceIP(vm))
  ELSE vm

\* ------------------------------------------------------------- instructions
\* Outcomes of an operation whose behaviour the language leaves undefined:
\* the process is killed ("trap"), or execution goes on ("continue").
UBOutcomes == {"trap", "continue"}

Trap(vm) == [vm EXCEPT !.fault = TRUE]

Inst_Nop(vm) == vm

\* Const that decodes one argument and uses it for the value and the stack.
Inst_Const_OneArg(vm) ==
  LET a1 == GetArg(vm, 0)
  IN  VMPush(a1.vm, a1.val, const_vals[a1.val + 1])

Inst_Const(vm) ==
  LET a1 == GetArg(vm, 0)
      value == const_vals[a1.val + 1]
      a2 == GetStackArg(a1.vm, 0)
  IN  VMPush(a2.vm, a2.val, value)

Inst_Offset(vm) ==
  LET a1 == GetArg(vm, 0)
      X == const_vals[a1.val + 1]
      a2 == GetArg(a1.vm, 0)
      Y_id == a2.val
      p == VMPop(a2.vm, Y_id)
      a3 == GetStackArg(p.vm, Y_id)
  IN  VMPush(a3.vm, a3.val, AddW(X, p.val))

Inst_Not(vm) ==
  LET a1 == GetArg(vm, 0)
      X_id == a1.val
      p == VMPop(a1.vm, X_id)
      a2 == GetStackArg(p.vm, X_id)
  IN  VMPush(a2.vm, a2.val, IF p.val = 0 THEN 1 ELSE 0)

\* The decoding shared by the two-operand instructions:
\*   X_id = GetArg(Nop::A); X = stacks[X_id].Pop(); Y = GetStackArg(X_id).Pop();
\* It returns the state after the two pops with X_id, X and Y.
\* First, that decoding with Y popped from GetStackArg(Nop::A).
PopOperands_YFromA(vm) ==
  LET a1 == GetArg(vm, 0)
      X_id == a1.val
      p1 == VMPop(a1.vm, X_id)
      a2 == GetStackArg(p1.vm, 0)
      p2 == VMPop(a2.vm, a2.val)
  IN  [vm |-> p2.vm, X_id |-> X_id, Y_id |-> a2.val, X |-> p1.val, Y |-> p2.val]

PopOperands(vm) ==
  LET a1 == GetArg(vm, 0)
      X_id == a1.val
      p1 == VMPop(a1.vm, X_id)
      a2 == GetStackArg(p1.vm, X_id)
      p2 == VMPop(a2.vm, a2.val)
  IN  [vm |-> p2.vm, X_id |-> X_id, Y_id |-> a2.val, X |-> p1.val, Y |-> p2.val]

\* GetStackArg(X_id).Push(result)
PushResult(vm, X_id, result) ==
  LET a3 == GetStackArg(vm, X_id)
  IN  VMPush(a3.vm, a3.val, result)

Inst_Shift(vm) ==
  LET d == PopOperands(vm)
  IN  PushResult(d.vm, d.X_id, ShiftL(d.X, EmpMod(d.Y, DATA_BITS)))

Inst_Add(vm) ==
  LET d == PopOperands(vm) IN PushResult(d.vm, d.X_id, AddW(d.X, d.Y))

Inst_Sub(vm) ==
  LET d == PopOperands(vm) IN PushResult(d.vm, d.X_id, SubW(d.X, d.Y))

Inst_Mult(vm) ==
  LET d == PopOperands(vm) IN PushResult(d.vm, d.X_id, MultW(d.X, d.Y))

\* Div that pushes its operands back when the divisor is zero.
Inst_Div_Repush(vm, ub) ==
  LET d == PopOperands(vm)
  IN  IF d.Y = 0
      THEN [VMPush(VMPush(d.vm, d.Y_id, d.Y), d.X_id, d.X) EXCEPT !.error_count = @ + 1]
      ELSE PushResult(d.vm, d.X_id, IF d.X = INT_MIN /\ d.Y = -1 THEN INT_MIN ELSE TruncDiv(d.X, d.Y))

\* INT_MIN / -1 and INT_MIN % -1 overflow int: undefined behaviour.  A build
\* either traps (the x86 idiv raises SIGFPE) or yields the wrapped quotient
\* INT_MIN, resp. the remainder 0.
Inst_Div(vm, ub) ==
  LET d == PopOperands(vm)
  IN  IF d.Y = 0 THEN [d.vm EXCEPT !.error_count = @ + 1]
      ELSE IF d.X = INT_MIN /\ d.Y = -1
           THEN IF ub = "trap" THEN Trap(GetStackArg(d.vm, d.X_id).vm)
                ELSE PushResult(d.vm, d.X_id, INT_MIN)
      ELSE PushResult(d.vm, d.X_id, TruncDiv(d.X, d.Y))

Inst_Mod(vm, ub) ==
  LET d == PopOperands(vm)
  IN  IF d.Y = 0 THEN [d.vm EXCEPT !.error_count = @ + 1]
      ELSE IF d.X = INT_MIN /\ d.Y = -1
           THEN IF ub = "trap" THEN Trap(GetStackArg(d.vm, d.X_id).vm)
                ELSE PushResult(d.vm, d.X_id, 0)
      ELSE PushResult(d.vm, d.X_id, TruncMod(d.X, d.Y))

Inst_Exp(vm) ==
  LET d == PopOperands(vm) IN PushResult(d.vm, d.X_id, EmpPow(d.X, d.Y))

Inst_Sort(vm) ==
  LET a1 == GetArg(vm, 0)
      X_id == a1.val
      a2 == GetArg(a1.vm, X_id)
      Y_id == a2.val
      p1 == VMPop(a2.vm, X_id)
      p2 == VMPop(p1.vm, Y_id)
      X == IF p1.val < p2.val THEN p2.val ELSE p1.val
      Y == IF p1.val < p2.val THEN p1.val ELSE p2.val
      a3 == GetStackArg(p2.vm, X_id)
      s3 == VMPush(a3.vm, a3.val, X)
      a4 == GetStackArg(s3, Y_id)
  IN  VMPush(a4.vm, a4.val, Y)

Inst_TestLess(vm) ==
  LET d == PopOperands(vm)
  IN  PushResult(d.vm, d.X_id, IF d.X < d.Y THEN 1 ELSE 0)

Inst_TestEqu(vm) ==
  LET d == PopOperands(vm)
  IN  PushResult(d.vm, d.X_id, IF d.X = d.Y THEN 1 ELSE 0)

Inst_Nand(vm) ==
  LET d == PopOperands(vm) IN PushResult(d.vm, d.X_id, BitNot(BitAnd(d.X, d.Y)))

Inst_Xor(vm) ==
  LET d == PopOperands(vm) IN PushResult(d.vm, d.X_id, BitXor(d.X, d.Y))

Inst_If(vm) ==
  LET a == GetStackArg(vm, 0)
      p == VMPop(a.vm, a.val)
  IN  IF p.val = 0 THEN AdvanceIP(p.vm) ELSE p.vm

\* IfNot that skips an instruction with its nop arguments.
Inst_IfNot_SkipsArgs(vm) ==
  LET a == GetStackArg(vm, 0)
      p == VMPop(a.vm, a.val)
  IN  IF p.val # 0 THEN SkipNops(AdvanceIP(p.vm)) ELSE p.vm

Inst_IfNot(vm) ==
  LET a == GetStackArg(vm, 0)
      p == VMPop(a.vm, a.val)
  IN  IF p.val # 0 THEN AdvanceIP(p.vm) ELSE p.vm

\* Scope that leaves IP on its first trailing nop.
Inst_Scope_NoSkip(vm) == vm

Inst_Scope(vm) == SkipNops(vm)

\* The loop of Inst_Continue: scan backwards while IP < genome.size().
RECURSIVE ContinueScan(_, _)
ContinueScan(vm, target_scope) ==
  IF UInRange(IP(vm), Len(vm.genome))
  THEN IF AtScopeLimit(vm, target_scope)
       THEN SkipNops(AdvanceIP(WithScopeId(vm)))
       ELSE ContinueScan([WithScopeId(vm) EXCEPT !.heads[HEAD_IP] = @ - 1],
                         target_scope)
  ELSE [vm EXCEPT !.heads[HEAD_IP] = 0]

\* Continue that starts its scan without the IP -= 2.
Inst_Continue_NoBackstep(vm) ==
  LET a == GetArg(vm, 0)
  IN  ContinueScan(a.vm, a.val)

\* From a position of 2^63 or more (a negative representative) the position
\* two back is still beyond the genome, and the loop is not entered.
Inst_Continue(vm) ==
  LET a == GetArg(vm, 0)
  IN  IF IP(a.vm) < 0 THEN [a.vm EXCEPT !.heads[HEAD_IP] = 0]
      ELSE ContinueScan([a.vm EXCEPT !.heads[HEAD_IP] = @ - 2], a.val)

\* The loop of Inst_Break: scan forwards while IP < genome.size().
RECURSIVE BreakScan(_, _)
BreakScan(vm, target_scope) ==
  IF UInRange(IP(vm), Len(vm.genome))
  THEN IF AtScopeLimit(vm, target_scope)
       THEN SkipNops(WithScopeId(vm))
       ELSE BreakScan(AdvanceIP(WithScopeId(vm)), target_scope)
  ELSE vm

\* Break that scans from the start of the genome.
Inst_Break_FromStart(vm) ==
  LET a == GetArg(vm, 0)
  IN  BreakScan([a.vm EXCEPT !.heads[HEAD_IP] = 0], a.val)

Inst_Break(vm) ==
  LET a == GetArg(vm, 0)
  IN  BreakScan(a.vm, a.val)

\* StackPop that also zeroes the slot it discards.
Inst_StackPop_Clear(vm) ==
  LET a == GetStackArg(vm, 0)
      p == VMPop(a.vm, a.val)
  IN  [p.vm EXCEPT !.stacks[a.val].stack[p.vm.stacks[a.val].stack_pos] = 0]

Inst_StackPop(vm) ==
  LET a == GetStackArg(vm, 0)
  IN  VMPop(a.vm, a.val).vm

Inst_StackDup(vm) ==
  LET a1 == GetArg(vm, 0)
      stack1_id == a1.val
      value == Top(a1.vm.stacks[stack1_id])
      a2 == GetStackArg(a1.vm, stack1_id)
  IN  VMPush(a2.vm, a2.val, value)

Inst_StackSwap(vm) ==
  LET a1 == GetArg(vm, 0)
      stack1_id == a1.val
      a2 == GetArg(a1.vm, stack1_id)
      stack2_id == a2.val
      p1 == VMPop(a2.vm, stack1_id)
      p2 == VMPop(p1.vm, stack2_id)
      a3 == GetStackArg(p2.vm, stack2_id)
      s3 == VMPush(a3.vm, a3.val, p1.val)
      a4 == GetStackArg(s3, stack1_id)
  IN  VMPush(a4.vm, a4.val, p2.val)

Inst_StackMove(vm) ==
  LET a1 == GetArg(vm, 0)
      stack1_id == a1.val
      a2 == GetArg(a1.vm, (stack1_id + 1) % NUM_NOPS)
      stack2_id == a2.val
  IN  IF stack1_id # stack2_id
      THEN LET p == VMPop(a2.vm, stack1_id) IN VMPush(p.vm, stack2_id, p.val)
      ELSE a2.vm

Inst_CopyInst(vm) ==
  LET a1 == GetHeadArg(vm, HEAD_G_READ)
      read_head == a1.val
      a2 == GetHeadArg(a1.vm, HEAD_G_WRITE)
      write_head == a2.val
      inst == ReadGenome(a2.vm, a2.vm.heads[read_head])
      s1 == WriteGenome(a2.vm, a2.vm.heads[write_head], inst)
      s2 == [s1 EXCEPT !.heads[read_head] = @ + 1]
  IN  [s2 EXCEPT !.heads[write_head] = @ + 1]

Inst_Load(vm) ==
  LET a1 == GetHeadArg(vm, HEAD_M_READ)
      from_head == a1.val
      a2 == GetStackArg(a1.vm, 0)
      s1 == VMPush(a2.vm, a2.val, ReadMemory(a2.vm, a2.vm.heads[from_head]))
  IN  [s1 EXCEPT !.heads[from_head] = @ + 1]

Inst_Store(vm) ==
  LET a1 == GetStackArg(vm, 0)
      p == VMPop(a1.vm, a1.val)
      a2 == GetHeadArg(p.vm, HEAD_M_WRITE)
      to_head == a2.val
      s1 == WriteMemory(a2.vm, a2.vm.heads[to_head], p.val)
  IN  [s1 EXCEPT !.heads[to_head] = @ + 1]

\* Inst_DivideCell orders its two heads: if the second is before the first,
\* the two positions are swapped.
DivideOrder(s0, head1, head2) ==
  IF ULess(s0.heads[head2], s0.heads[head1])
  THEN [s0 EXCEPT !.heads = [@ EXCEPT ![head1] = s0.heads[head2],
                                     ![head2] = s0.heads[head1]]]
  ELSE s0

\* Inst_DivideCell clamps the second head to the genome size; with the state
\* after the clamp go the two head references and the two positions.
DivideClamp(s1, head1, head2) ==
  LET s2 == IF ULess(Len(s1.genome), s1.heads[head2])
            THEN [s1 EXCEPT !.heads[head2] = Len(s1.genome)]
            ELSE s1
  IN  [vm |-> s2, head1 |-> head1, head2 |-> head2,
       h1 |-> s2.heads[head1], h2 |-> s2.heads[head2]]

\* The decoding of Inst_DivideCell up to its validity test: the two head
\* references, the state after the swap and the clamp, and the two positions.
DivideHeads(vm) ==
  LET a1 == GetHeadArg(vm, HEAD_G_READ)
      a2 == GetHeadArg(a1.vm, HEAD_G_WRITE)
  IN  DivideClamp(DivideOrder(a2.vm, a1.val, a2.val), a1.val, a2.val)

\* The error test of Inst_DivideCell.
DivideFails(d) == ~UInRange(d.h1, Len(d.vm.genome)) \/ d.h1 = d.h2

\* The success path of Inst_DivideCell: the range goes to the offspring, the
\* second head takes the first one's position and the first goes to 0.
DivideExtract(s2, head1, head2, e) ==
  [s2 EXCEPT !.offspring = e.out, !.genome = e.rest,
             !.heads = [@ EXCEPT ![head2] = s2.heads[head1], ![head1] = 0]]

\* DivideCell that returns on invalid geometry without counting the error.
Inst_DivideCell_NoCount(vm) ==
  LET d == DivideHeads(vm)
  IN  IF DivideFails(d)
      THEN d.vm
      ELSE DivideExtract(d.vm, d.head1, d.head2,
                         Extract(d.vm.genome, d.h1, d.h2 - d.h1))

Inst_DivideCell(vm) ==
  LET d == DivideHeads(vm)
  IN  IF DivideFails(d)
      THEN [d.vm EXCEPT !.error_count = @ + 1]
      ELSE DivideExtract(d.vm, d.head1, d.head2,
                         Extract(d.vm.genome, d.h1, d.h2 - d.h1))

\* Push takes an int: the size_t position is narrowed to its low 32 bits,
\* read as a two's-complement value (lo and hi are its two 16-bit halves).
Inst_HeadPos(vm) ==
  LET a1 == GetHeadArg(vm, HEAD_FLOW)
      pos == a1.vm.heads[a1.val]
      lo == pos % 65536
      hi == (pos \div 65536) % 65536
      narrowed == IF hi >= 32768 THEN (hi - 65536) * 65536 + lo
                  ELSE hi * 65536 + lo
      a2 == GetStackArg(a1.vm, 0)
  IN  VMPush(a2.vm, a2.val, narrowed)

Inst_SetHead(vm) ==
  LET a1 == GetStackArg(vm, 0)
      p == VMPop(a1.vm, a1.val)
      a2 == GetHeadArg(p.vm, HEAD_FLOW)
  IN  [a2.vm EXCEPT !.heads[a2.val] = p.val]

Inst_JumpHead(vm) ==
  LET a1 == GetHeadArg(vm, HEAD_IP)
      jump_head == a1.val
      a2 == GetHeadArg(a1.vm, HEAD_FLOW)
  IN  [a2.vm EXCEPT !.heads[jump_head] = a2.vm.heads[a2.val]]

Inst_OffsetHead(vm) ==
  LET a1 == GetHeadArg(vm, HEAD_FLOW)
      head == a1.val
      a2 == GetStackArg(a1.vm, 0)
      p == VMPop(a2.vm, a2.val)
  IN  [p.vm EXCEPT !.heads[head] = @ + p.val]

\* AvidaVM::Reset().
ResetVM(vm) ==
  [vm EXCEPT !.offspring = <<>>,
             !.heads = [h \in 0..(NUM_NOPS - 1) |->
                          IF h = HEAD_G_WRITE THEN Len(vm.genome) ELSE 0],
             !.stacks = [s \in 0..(NUM_NOPS - 1) |-> StackReset(vm.stacks[s])],
             !.error_count = 0]

\* ----------------------------------------------------------------- dispatch
\* (vm.*fun)(): the call of a member function through a pointer of type
\* inst_fun_t, named by the instruction BuildInstSet registers it for, or
\* "Nop" for Inst_Nop and "Reset" for Reset().  A call through nullptr, or
\* through a value that is no such function's address, kills the process.
CallInst(vm, fun, ub) ==
  CASE fun = "Nop" -> Inst_Nop(vm)
    [] fun = "Reset" -> ResetVM(vm)
    [] fun = "Const" -> Inst_Const(vm)
    [] fun = "Offset" -> Inst_Offset(vm)
    [] fun = "Not" -> Inst_Not(vm)
    [] fun = "Shift" -> Inst_Shift(vm)
    [] fun = "Add" -> Inst_Add(vm)
    [] fun = "Sub" -> Inst_Sub(vm)
    [] fun = "Mult" -> Inst_Mult(vm)
    [] fun = "Div" -> Inst_Div(vm, ub)
    [] fun = "Mod" -> Inst_Mod(vm, ub)
    [] fun = "Exp" -> Inst_Exp(vm)
    [] fun = "Sort" -> Inst_Sort(vm)
    [] fun = "TestLess" -> Inst_TestLess(vm)
    [] fun = "TestEqu" -> Inst_TestEqu(vm)
    [] fun = "Nand" -> Inst_Nand(vm)
    [] fun = "Xor" -> Inst_Xor(vm)
    [] fun = "If" -> Inst_If(vm)
    [] fun = "IfNot" -> Inst_IfNot(vm)
    [] fun = "Scope" -> Inst_Scope(vm)
    [] fun = "Continue" -> Inst_Continue(vm)
    [] fun = "Break" -> Inst_Break(vm)
    [] fun = "StackPop" -> Inst_StackPop(vm)
    [] fun = "StackDup" -> Inst_StackDup(vm)
    [] fun = "StackSwap" -> Inst_StackSwap(vm)
    [] fun = "StackMove" -> Inst_StackMove(vm)
    [] fun = "CopyInst" -> Inst_CopyInst(vm)
    [] fun = "Load" -> Inst_Load(vm)
    [] fun = "Store" -> Inst_Store(vm)
    [] fun = "DivideCell" -> Inst_DivideCell(vm)
    [] fun = "HeadPos" -> Inst_HeadPos(vm)
    [] fun = "SetHead" -> Inst_SetHead(vm)
    [] fun = "JumpHead" -> Inst_JumpHead(vm)
    [] fun = "OffsetHead" -> Inst_OffsetHead(vm)
    [] OTHER -> Trap(vm)

\* What funs[id] holds for an id that no AddInst wrote: the array has no
\* initialiser, so it is whatever the storage of the set held before: nullptr
\* or a value that is no function's address ("nullptr"), or the address of a
\* public member function of type void (AvidaVM::*)() that an earlier InstSet
\* in the same storage registered there: a handler, Inst_Nop, Reset() or
\* ProcessInst().
StaleFuns ==
  {"nullptr", "Nop", "Reset", "ProcessInst"} \cup {InstNames[i] : i \in 1..Len(InstNames)}

\* The ids without a written funs entry that a call of Execute with id on vm
\* can dispatch: id itself and the bytes of the genome.
UnwrittenIds(iset, vm, id) ==
  {b \in {id} \cup {vm.genome[i] : i \in 1..Len(vm.genome)} : b >= num_insts(iset)}

\* The outcomes of a call of Execute with an id that was never registered:
\* what the unwritten entries of funs hold, with the outcome of an undefined
\* division in the function that is called.
StaleOutcomes(iset, vm, id) ==
  [UnwrittenIds(iset, vm, id) -> StaleFuns] \X UBOutcomes

\* InstSet::Execute(vm, id) on any instruction set: nothing for a nop, else
\* the call through funs[id], without a check of id against num_insts.  For a
\* registered id ub is the outcome of an undefined division (UBOutcomes); for
\* an id that was never registered ub is one of StaleOutcomes.  A stale
\* ProcessInst() reads the next byte and dispatches it in the same set.
RECURSIVE ExecuteIn(_, _, _, _)
ExecuteIn(iset, vm, id, ub) ==
  IF id < iset.num_nops THEN vm
  ELSE LET stale == id >= num_insts(iset)
           fun == IF stale THEN ub[1][id] ELSE iset.funs[id + 1]
       IN  IF fun = "ProcessInst"
           THEN ExecuteIn(iset, AdvanceIP(vm), ReadIP(vm),
                          IF ReadIP(vm) >= num_insts(iset) THEN ub ELSE ub[2])
           ELSE CallInst(vm, fun, IF stale THEN ub[2] ELSE ub)

\* Execute without the early return for nops: a nop's funs[id] is nullptr.
Execute_CallsNop(vm, id, ub) ==
  IF id >= NUM_INSTS THEN ExecuteIn(BuildInstSet, vm, id, ub)
  ELSE CallInst(vm, BuildInstSet.funs[id + 1], ub)

\* InstSet::Execute on the machine's instruction set, the one BuildInstSet
\* builds.
Execute(vm, id, ub) == ExecuteIn(BuildInstSet, vm, id, ub)

\* ------------------------------------------------- the two dispatch mechanisms
\* The switch with the handlers of cases 27 and 28 exchanged.
SwitchHandler_Swapped(id) ==
  CASE id \in {0, 1, 2, 3, 4, 5} -> "break"
    [] id = 6 -> "Const"
    [] id = 7 -> "Offset"
    [] id = 8 -> "Not"
    [] id = 9 -> "Shift"
    [] id = 10 -> "Add"
    [] id = 11 -> "Sub"
    [] id = 12 -> "Mult"
    [] id = 13 -> "Div"
    [] id = 14 -> "Mod"
    [] id = 15 -> "Exp"
    [] id = 16 -> "Sort"
    [] id = 17 -> "TestLess"
    [] id = 18 -> "TestEqu"
    [] id = 19 -> "Nand"
    [] id = 20 -> "Xor"
    [] id = 21 -> "If"
    [] id = 22 -> "IfNot"
    [] id = 23 -> "Scope"
    [] id = 24 -> "Continue"
    [] id = 25 -> "Break"
    [] id = 26 -> "StackPop"
    [] id = 27 -> "StackSwap"
    [] id = 28 -> "StackDup"
    [] id = 29 -> "StackMove"
    [] id = 30 -> "CopyInst"
    [] id = 31 -> "Load"
    [] id = 32 -> "Store"
    [] id = 33 -> "DivideCell"
    [] id = 34 -> "HeadPos"
    [] id = 35 -> "SetHead"
    [] id = 36 -> "JumpHead"
    [] id = 37 -> "OffsetHead"
    [] OTHER -> "default"

\* The case of the switch in AvidaVM::ProcessInst(size_t id) that id selects:
\* the handler it calls, "break" for the six nop cases, "default" for the
\* default case.
SwitchHandler(id) ==
  CASE id \in {0, 1, 2, 3, 4, 5} -> "break"
    [] id = 6 -> "Const"
    [] id = 7 -> "Offset"
    [] id = 8 -> "Not"
    [] id = 9 -> "Shift"
    [] id = 10 -> "Add"
    [] id = 11 -> "Sub"
    [] id = 12 -> "Mult"
    [] id = 13 -> "Div"
    [] id = 14 -> "Mod"
    [] id = 15 -> "Exp"
    [] id = 16 -> "Sort"
    [] id = 17 -> "TestLess"
    [] id = 18 -> "TestEqu"
    [] id = 19 -> "Nand"
    [] id = 20 -> "Xor"
    [] id = 21 -> "If"
    [] id = 22 -> "IfNot"
    [] id = 23 -> "Scope"
    [] id = 24 -> "Continue"
    [] id = 25 -> "Break"
    [] id = 26 -> "StackPop"
    [] id = 27 -> "StackDup"
    [] id = 28 -> "StackSwap"
    [] id = 29 -> "StackMove"
    [] id = 30 -> "CopyInst"
    [] id = 31 -> "Load"
    [] id = 32 -> "Store"
    [] id = 33 -> "DivideCell"
    [] id = 34 -> "HeadPos"
    [] id = 35 -> "SetHead"
    [] id = 36 -> "JumpHead"
    [] id = 37 -> "OffsetHead"
    [] OTHER -> "default"

\* AvidaVM::ProcessInst(size_t id).  The default case reports the id through
\* emp::notify::Error and changes nothing in the machine.  What the report
\* does is decided outside the machine, by the handlers installed for errors:
\* it ends the process when none resolves the error ("trap"), or it returns
\* and ProcessInst(id) returns with the machine as it was ("continue").
ProcessInstId(vm, id, ub) ==
  LET handler == SwitchHandler(id)
  IN  IF handler = "break" THEN vm
      ELSE IF handler = "default"
           THEN (IF ub = "trap" THEN Trap(vm) ELSE vm)
      ELSE CallInst(vm, handler, ub)

\* AvidaVM::ProcessInst() on a machine state.
Cycle(vm, ub) ==
  LET id == ReadIP(vm)
  IN  Execute(AdvanceIP(vm), id, ub)

\* The outcomes of the undefined step a cycle on vm can contain: the call of
\* an unwritten funs[id] for a byte that is no registered id, an undefined
\* division otherwise.
CycleOutcomes(vm) ==
  IF ReadIP(vm) >= NUM_INSTS THEN StaleOutcomes(BuildInstSet, vm, ReadIP(vm))
  ELSE UBOutcomes

\* AvidaVM::Reset(in_genome).
ResetGenomeVM(vm, in_genome) == ResetVM([vm EXCEPT !.genome = in_genome])

\* AvidaVM(inst_set, genome): memory{} and error_count = 0 from the member
\* initialisers, then Reset().
Construct(in_genome) ==
  ResetVM([genome |-> in_genome, offspring |-> <<>>,
           memory |-> [i \in 0..(MEM_SIZE - 1) |-> 0],
           heads |-> [h \in 0..(NUM_NOPS - 1) |-> 0],
           stacks |-> [s \in 0..(NUM_NOPS - 1) |-> NewStack],
           error_count |-> 0, fault |-> FALSE, inst_scope_id |-> NO_SCOPE])

\* -------------------------------------------------------------------- state
VARIABLES
  genome,       \* AvidaVM::genome, a sequence of bytes
  offspring,    \* AvidaVM::offspring
  memory,       \* AvidaVM::memory, [0..MEM_SIZE-1 -> int]
  heads,        \* AvidaVM::heads, [0..5 -> size_t]
  stacks,       \* AvidaVM::stacks, [0..5 -> VMStack]
  error_count,  \* AvidaVM::error_count
  fault,        \* TRUE once the process was killed inside a cycle
  cycles,       \* the driver's count of ProcessInst calls (Avida::Trace's i)
  calls,        \* the number of calls a client made of the machine's other
                \* public functions that run a handler
  inst_id,      \* the id read by the last ProcessInst (NO_INST if none since
                \* the construction or the last Reset)
  inst_scope_id, \* the static of AvidaVM::AtScopeLimit (NO_SCOPE until its
                \* initialisation)
  reg,          \* an InstSet and the last call made on it
  ring          \* a VMStack on its own and the calls made on it

vmvars == <<genome, offspring, memory, heads, stacks, error_count, fault,
            cycles, calls, inst_id, inst_scope_id>>

vars == <<genome, offspring, memory, heads, stacks, error_count, fault, cycles,
          calls, inst_id, inst_scope_id, reg, ring>>

NO_INST == -1

\* The machine state as the record the operators above work on.
VM ==
  [genome |-> genome, offspring |-> offspring, memory |-> memory,
   heads |-> heads, stacks |-> stacks, error_count |-> error_count,
   fault |-> fault, inst_scope_id |-> inst_scope_id]

\* The InstSet of reg before any call on it.
RegStart(iset) ==
  [iset |-> iset, op |-> "none", name |-> "", symbol |-> 0, sequence |-> <<>>,
   id |-> 0, genome |-> <<>>, out |-> <<>>, adds |-> 0]

\* The stack of ring after VMStack's member initialisers.
RingStart ==
  [stk |-> NewStack, pushed |-> <<>>, npops |-> 0, popped |-> 0, top |-> 0,
   op |-> "none"]

\* ------------------------------------------------------------------- bounds
\* Cycles the driver runs.
MaxCycles == 6
\* Every genome of 1..MaxLen bytes over Alphabet is an initial genome.
MaxLen == 3

\* The bytes a genome can hold that matter to dispatch: the 38 registered ids
\* and the byte BuildGenome stores for an unknown symbol.
Bytes == (0..(NUM_INSTS - 1)) \cup {NULL_BYTE}

\* Consecutive executions of one instruction followed from a reset state.
MaxCopies == 4

\* Nop-A, Nop-B, Const, CopyInst, DivideCell, SetHead.
Alphabet == {0, 1, ID_Const, ID_CopyInst, ID_DivideCell, ID_SetHead}

SeqsUpTo(S, n) == UNION {[1..k -> S] : k \in 1..n}

\* Every genome of one byte, and every genome of two bytes that starts with
\* a registered id: the second byte is a registered id or NULL_BYTE.
ShortGenomes ==
  {<<a>> : a \in Bytes}
    \cup {<<a, b>> : a \in 0..(NUM_INSTS - 1), b \in Bytes}

\* Longer programs, by what they exercise.
Programs ==
  { <<6, 0>>,                                  \* "ga"      Const Nop-A
    <<6, NULL_BYTE>>,                          \* Const, then an unregistered byte
    <<NULL_BYTE, 0>>,                          \* an unregistered byte first
    <<6, 0, 6, 0, 10>>,                        \* "gagak"   Const, Const, Add
    <<6, 2, 0, 7, 0, 0, 0, 6, 0, 1, 8, 1, 1, 13, 0, 1>>, \* A=[5], B=[0], Div A B
    <<6, 2, 0, 7, 0, 0, 0, 14, 0, 1>>,         \* 5 on A, then Mod A B: 5 % 0
    <<6, 3, 35, 0, 1, 6, 4, 35, 0, 2, 33, 6>>, \* both heads past the end, DivideCell
    <<6, 4, 6, 3, 13, 6, 14>>,                 \* 16 / 256, then Mod
    <<6, 5, 6, 5, 6, 9, 13>>,                  \* INT_MIN / -1
    <<6, 5, 6, 5, 6, 9, 14>>,                  \* INT_MIN % -1
    <<6, 4, 0, 35, 0, 4, 6, 3, 32, 6, 32>>,    \* M_WRITE := 256, two Stores
    <<6, 3, 32, 6, 1, 32, 31, 17, 31>>,        \* Store 16, Store 2, Load
    <<6, 3, 0, 35, 0, 4, 6, 5, 32, 0, 4, 32>>, \* M_WRITE := 16, Store -1 there
    <<30, 30, 30, 33, 6>>,                     \* three CopyInst, DivideCell
    <<30, 6, 33, 2, 1, 6>>,                    \* DivideCell with heads swapped
    <<6, 1, 35, 0, 1, 33, 6, 0, 8>>,           \* G_READ := 2, DivideCell
    <<6, 3, 35, 0, 2, 33, 6>>,                 \* G_WRITE := 16, DivideCell
    <<6, 3, 35, 0, 1, 33, 6>>,                 \* G_READ := 16, DivideCell
    <<33, 1, 1, 6>>,                           \* DivideCell, both heads G_READ
    <<23, 0, 6, 0, 25, 0, 6, 1, 23, 0>>,       \* Scope, Const, Break, Const, Scope
    <<23, 1, 6, 0, 24, 1, 6>>,                 \* Scope B, Const, Continue B
    <<6, 5, 0, 35, 0, 0, 6>>,                  \* IP := -1 (2^64 - 1)
    <<6, 2, 15, 6, 1, 12, 34, 37, 36>>,        \* Exp, Mult, HeadPos, OffsetHead
    <<13, 6, 3, 32, 6>>,                       \* 0 / 0, then Store 16
    <<13, NULL_BYTE>>,                         \* 0 / 0, then an unregistered byte
    <<23, 0, 23, 0, 6, 24>>,                   \* Scope A, Scope A, Const, Continue
    <<6, 3, 32, 0, 2>>,                        \* Const 16, Store A through G_WRITE
    <<6, 35, 0, 2, 30, 6>>,                    \* G_WRITE := 1, CopyInst inserts there
    <<6, 1, 0, 26, 0, 6, 0, 26, 0>>,           \* Const 2, StackPop, Const 1, StackPop
    <<6, 1, 6, 1, 10, 1, 6>>,                  \* Const 2 twice, Add Nop-B
    <<6, 0, 21, 6, 1>>,                        \* Const 1, If, Const Nop-B
    <<6, 0, 22, 6, 1>> }                       \* Const 1, IfNot, Const Nop-B

InitGenomes == ShortGenomes \cup SeqsUpTo(Alphabet, MaxLen) \cup Programs

\* The genomes the driver installs with Reset(in_genome).
ResetGenomes ==
  { <<6>>,
    <<6, 3, 32, 6, 1, 32, 31, 17, 31>>,
    <<30, 30, 30, 33, 6>> }

\* ------------------------------------------------------------------ actions
Install(vm) ==
  /\ genome' = vm.genome
  /\ offspring' = vm.offspring
  /\ memory' = vm.memory
  /\ heads' = vm.heads
  /\ stacks' = vm.stacks
  /\ error_count' = vm.error_count
  /\ fault' = vm.fault
  /\ inst_scope_id' = vm.inst_scope_id

Init ==
  \E g \in InitGenomes :
    LET vm == Construct(g)
    IN  /\ genome = vm.genome
        /\ offspring = vm.offspring
        /\ memory = vm.memory
        /\ heads = vm.heads
        /\ stacks = vm.stacks
        /\ error_count = vm.error_count
        /\ fault = vm.fault
        /\ inst_scope_id = vm.inst_scope_id
        /\ cycles = 0
        /\ calls = 0
        /\ inst_id = NO_INST
        /\ reg = RegStart(BuildInstSet)
        /\ ring = RingStart

\* One call of AvidaVM::ProcessInst() by the driver.
ProcessInst ==
  /\ ~fault
  /\ cycles < MaxCycles
  /\ \E ub \in CycleOutcomes(VM) : Install(Cycle(VM, ub))
  /\ inst_id' = ReadIP(VM)
  /\ cycles' = cycles + 1
  /\ UNCHANGED <<calls, reg, ring>>

\* AvidaVM::Reset().
Reset ==
  /\ ~fault
  /\ Install(ResetVM(VM))
  /\ inst_id' = NO_INST
  /\ UNCHANGED <<cycles, calls, reg, ring>>

\* AvidaVM::Reset(in_genome).
ResetGenome ==
  /\ ~fault
  /\ \E g \in ResetGenomes : Install(ResetGenomeVM(VM, g))
  /\ inst_id' = NO_INST
  /\ UNCHANGED <<cycles, calls, reg, ring>>

Next == ProcessInst \/ Reset \/ ResetGenome

Spec == Init /\ [][Next]_vars

\* -------------------------------------------- the process with other InstSets
\* The six nops of the default set, on their own.
NopsOnly ==
  LET nops[i \in 0..Len(NopNames)] ==
        IF i = 0 THEN NewInstSet
        ELSE AddNopInst(nops[i - 1], NopNames[i], "debug")
  IN  nops[Len(NopNames)]

\* InstSets a client builds through the public AddNopInst, AddInst and
\* GetFunction: the nops and Break without any Scope; Scope registered right
\* after the nops, then Break.
OtherInstSets ==
  { AddInst(NopsOnly, "Break", "Break"),
    AddInst(AddInst(NopsOnly, "Scope", "Scope"), "Break", "Break") }

\* A machine bound to another InstSet is the first of the process to call
\* AtScopeLimit (its Break or Continue scans a position of its genome): the
\* static is initialised from that InstSet.
OtherVMScans ==
  /\ inst_scope_id = NO_SCOPE
  /\ \E s \in OtherInstSets : inst_scope_id' = ScopeIdOf(s)
  /\ UNCHANGED <<genome, offspring, memory, heads, stacks, error_count, fault,
                 cycles, calls, inst_id, reg, ring>>

NextShared == Next \/ OtherVMScans

SpecShared == Init /\ [][NextShared]_vars

\* ------------------------------------------- the machine's other public calls
\* Calls a client makes of the public functions that run a handler without
\* reading or advancing IP.
MaxCalls == 1

\* The genomes of the machines a client calls and of its Reset(G'): "ga", and
\* Div, DivideCell; the ids it passes to
\* ProcessInst(id) and to Execute: every registered id and NULL_BYTE, which
\* the switch sends to its default case; and the handlers it calls by name:
\* Inst_Nop and the 32 handlers of the default set.
ClientGenomes == { <<6, 0>>, <<13, 33>> }
ClientIds == Bytes
ClientFuns == {"Nop"} \cup {InstNames[i] : i \in 1..Len(InstNames)}

InitClient == Init /\ genome \in ClientGenomes

\* vm.ProcessInst(id): the switch.
CallProcessInstId ==
  /\ ~fault
  /\ calls < MaxCalls
  /\ \E id \in ClientIds, ub \in UBOutcomes : Install(ProcessInstId(VM, id, ub))
  /\ calls' = calls + 1
  /\ UNCHANGED <<cycles, inst_id, reg, ring>>

\* inst_set.Execute(vm, id), called by the client on the machine's set.
CallExecute ==
  /\ ~fault
  /\ calls < MaxCalls
  /\ \E id \in ClientIds :
       \E ub \in (IF id >= num_insts(reg.iset)
                  THEN StaleOutcomes(reg.iset, VM, id) ELSE UBOutcomes) :
         Install(ExecuteIn(reg.iset, VM, id, ub))
  /\ calls' = calls + 1
  /\ UNCHANGED <<cycles, inst_id, reg, ring>>

\* vm.Inst_Nop(), vm.Inst_Const(), vm.Inst_Store(), ...: a handler called by
\* name.
CallHandler ==
  /\ ~fault
  /\ calls < MaxCalls
  /\ \E fun \in ClientFuns, ub \in UBOutcomes : Install(CallInst(VM, fun, ub))
  /\ calls' = calls + 1
  /\ UNCHANGED <<cycles, inst_id, reg, ring>>

\* vm.Reset(G') with one of the client's genomes.
CallResetGenome ==
  /\ ~fault
  /\ \E g \in ClientGenomes : Install(ResetGenomeVM(VM, g))
  /\ inst_id' = NO_INST
  /\ UNCHANGED <<cycles, calls, reg, ring>>

\* A client drives the machine through its whole public interface:
\* ProcessInst(), ProcessInst(id), Execute on its set, the handlers, Reset()
\* and Reset(G').
NextClient ==
  \/ ProcessInst
  \/ CallProcessInstId
  \/ CallExecute
  \/ CallHandler
  \/ Reset
  \/ CallResetGenome

SpecClient == InitClient /\ [][NextClient]_vars

\* ------------------------------------------------------ the InstSet registry
\* Calls of AddNopInst and AddInst the client makes after the construction.
MaxAdds == 3

\* Names the client registers and looks up; symbols and sequences it asks for
\* ("g" 103, "k" 107, "L" 76 the last default symbol, "M" 77 the next one,
\* "!" 33).
AddNames == {"Scope", "Zap"}
QueryNames == {"Scope", "Zap", "Nop-A", "OffsetHead", ""}
QuerySymbols == {CH_a, 103, 76, 77, CH_QM, 33}
QuerySequences ==
  { <<>>, <<103, 97>>, <<103, 97, 103, 97, 107>>, <<97, 76>>, <<76, 77>>,
    <<CH_QM>>, <<97, CH_QM>>, <<77, 77>> }

\* The machine the registry specification leaves alone.
IdleVM ==
  LET vm == Construct(<<>>)
  IN  /\ genome = vm.genome
      /\ offspring = vm.offspring
      /\ memory = vm.memory
      /\ heads = vm.heads
      /\ stacks = vm.stacks
      /\ error_count = vm.error_count
      /\ fault = vm.fault
      /\ inst_scope_id = vm.inst_scope_id
      /\ cycles = 0
      /\ calls = 0
      /\ inst_id = NO_INST

\* The client registers its instructions and then makes one lookup: the
\* lookups are const, so a later call would find the set as the adds left it.
Building(r) == r.op \in {"none", "AddInst", "AddNopInst"}

\* The client asks for a name or a symbol that only an unused entry matches
\* on a set as constructed, or on the default set with "Zap" added.
AsksUnused(r) == r.adds = 0 \/ r.iset = AddInst(BuildInstSet, "Zap", "Zap")

\* An InstSet right after its construction, or as BuildInstSet returns it.
InitReg ==
  /\ IdleVM
  /\ reg \in {RegStart(NewInstSet), RegStart(BuildInstSet)}
  /\ ring = RingStart

RegAddNopInst ==
  /\ ~reg.iset.aborted
  /\ Building(reg)
  /\ reg.adds < MaxAdds
  /\ \E name \in AddNames, build \in Builds :
       reg' = [RegStart(AddNopInst(reg.iset, name, build))
                 EXCEPT !.op = "AddNopInst", !.name = name, !.adds = reg.adds + 1]
  /\ UNCHANGED <<vmvars, ring>>

RegAddInst ==
  /\ ~reg.iset.aborted
  /\ Building(reg)
  /\ reg.adds < MaxAdds
  /\ \E name \in AddNames :
       reg' = [RegStart(AddInst(reg.iset, name, name))
                 EXCEPT !.op = "AddInst", !.name = name, !.adds = reg.adds + 1]
  /\ UNCHANGED <<vmvars, ring>>

RegGetIDName ==
  /\ ~reg.iset.aborted
  /\ Building(reg)
  /\ \E name \in QueryNames :
       /\ UnwrittenIdsName(reg.iset, name) = {0} \/ AsksUnused(reg)
       /\ \E junk \in UnwrittenIdsName(reg.iset, name) :
           reg' = [RegStart(reg.iset)
                     EXCEPT !.op = "GetIDName", !.name = name, !.adds = reg.adds,
                            !.id = GetIDName(reg.iset, name, junk)]
  /\ UNCHANGED <<vmvars, ring>>

RegGetIDSymbol ==
  /\ ~reg.iset.aborted
  /\ Building(reg)
  /\ \E symbol \in QuerySymbols :
       /\ UnwrittenIdsSymbols(reg.iset, <<symbol>>) = {0} \/ AsksUnused(reg)
       /\ \E junk \in UnwrittenIdsSymbols(reg.iset, <<symbol>>) :
           reg' = [RegStart(reg.iset)
                     EXCEPT !.op = "GetIDSymbol", !.symbol = symbol, !.adds = reg.adds,
                            !.id = GetIDSymbol(reg.iset, symbol, junk)]
  /\ UNCHANGED <<vmvars, ring>>

RegBuildGenome ==
  /\ ~reg.iset.aborted
  /\ Building(reg)
  /\ \E sequence \in QuerySequences :
       /\ UnwrittenIdsSymbols(reg.iset, sequence) = {0} \/ AsksUnused(reg)
       /\ \E junk \in UnwrittenIdsSymbols(reg.iset, sequence) :
           reg' = [RegStart(reg.iset)
                     EXCEPT !.op = "BuildGenome", !.sequence = sequence,
                            !.adds = reg.adds,
                            !.genome = BuildGenome(reg.iset, sequence, junk)]
  /\ UNCHANGED <<vmvars, ring>>

\* ToSequence on the genome BuildGenome returned.
RegToSequence ==
  /\ ~reg.iset.aborted
  /\ reg.op = "BuildGenome"
  /\ reg' = [reg EXCEPT !.op = "ToSequence",
                        !.out = ToSequence(reg.iset, reg.genome)]
  /\ UNCHANGED <<vmvars, ring>>

NextReg ==
  \/ RegAddNopInst
  \/ RegAddInst
  \/ RegGetIDName
  \/ RegGetIDSymbol
  \/ RegBuildGenome
  \/ RegToSequence

SpecReg == InitReg /\ [][NextReg]_vars

\* ------------------------------------------------------- a VMStack on its own
\* Pushes the client makes on the stack before it pops, and pops after them.
MaxPushes == 32
MaxPops == 17

InitRing ==
  /\ IdleVM
  /\ reg = RegStart(NewInstSet)
  /\ ring = RingStart

\* Push of the next value of 1, 2, 3, ...
RingPush ==
  /\ ring.npops = 0
  /\ Len(ring.pushed) < MaxPushes
  /\ LET v == Len(ring.pushed) + 1
     IN  ring' = [ring EXCEPT !.stk = Push(@, v), !.pushed = Append(@, v),
                              !.op = "Push"]
  /\ UNCHANGED <<vmvars, reg>>

RingPop ==
  /\ ring.npops < MaxPops
  /\ LET p == Pop(ring.stk)
     IN  ring' = [ring EXCEPT !.stk = p.stk, !.popped = p.val,
                              !.npops = @ + 1, !.op = "Pop"]
  /\ UNCHANGED <<vmvars, reg>>

RingTop ==
  /\ ring.op # "Top"
  /\ ring' = [ring EXCEPT !.top = Top(ring.stk), !.op = "Top"]
  /\ UNCHANGED <<vmvars, reg>>

RingReset ==
  /\ ring.op # "none"
  /\ ring' = [RingStart EXCEPT !.stk = StackReset(ring.stk)]
  /\ UNCHANGED <<vmvars, reg>>

NextRing == RingPush \/ RingPop \/ RingTop \/ RingReset

SpecStack == InitRing /\ [][NextRing]_vars

\* A step of the driver that is a ProcessInst cycle.
IsCycle == cycles' = cycles + 1

\* The state is the one Reset() leaves for the current genome.
IsResetState ==
  /\ heads = [h \in 0..(NUM_NOPS - 1) |-> IF h = HEAD_G_WRITE THEN Len(genome) ELSE 0]
  /\ stacks = [s \in 0..(NUM_NOPS - 1) |-> NewStack]
  /\ offspring = <<>>
  /\ error_count = 0

TypeOK ==
  /\ genome \in Seq(0..255)
  /\ offspring \in Seq(0..255)
  /\ DOMAIN memory = 0..(MEM_SIZE - 1)
  /\ DOMAIN heads = 0..(NUM_NOPS - 1)
  /\ \A s \in 0..(NUM_NOPS - 1) : stacks[s].stack_pos \in 0..(STACK_DEPTH - 1)
  /\ error_count \in Nat
  /\ fault \in BOOLEAN
  /\ cycles \in 0..MaxCycles
  /\ calls \in Nat
  /\ inst_scope_id \in {NO_SCOPE} \cup (0..255)

\* ------------------------------------------------------------------- claims
\* The machine state after the step.
VMNext ==
  [genome |-> genome', offspring |-> offspring', memory |-> memory',
   heads |-> heads', stacks |-> stacks', error_count |-> error_count',
   fault |-> fault', inst_scope_id |-> inst_scope_id']

\* The byte GetArg reads at IP: the genome byte there, 0 beyond the end.
ByteAtIP == IF heads[HEAD_IP] >= 0 /\ heads[HEAD_IP] < Len(genome)
            THEN genome[heads[HEAD_IP] + 1] ELSE 0

\* C1: GetArg(d) on any reachable state: when the byte read at IP is a nop id
\* n < NUM_NOPS it returns n and moves IP forward by exactly 1; otherwise it
\* returns d and leaves IP alone.  Nothing else of the machine changes.
C1_GetArgContract ==
  \A d \in 0..(NUM_NOPS - 1) :
    LET r == GetArg(VM, d)
    IN  IF ByteAtIP < NUM_NOPS
        THEN /\ r.val = ByteAtIP
             /\ r.vm = [VM EXCEPT !.heads = [heads EXCEPT ![HEAD_IP] = heads[HEAD_IP] + 1]]
        ELSE /\ r.val = d
             /\ r.vm = VM

\* The state after the Const cycle of "gdG...": its first GetArg found Nop-D
\* (value 16, IP moved to 2), its second found Store, a non-nop (default
\* stack A, IP left at 2).
C1_Witness ==
  /\ cycles = 1 /\ inst_id = ID_Const
  /\ Len(genome) >= 3 /\ genome[2] = 3 /\ genome[3] = ID_Store
  /\ heads[HEAD_IP] = 2
  /\ stacks[0].stack[0] = 16 /\ stacks[0].stack_pos = 1
  /\ GetArg(VM, HEAD_M_WRITE).val = HEAD_M_WRITE

\* C2 as stated: one cycle from the reset state of genome "g" or "ga" pushes
\* 1 onto stack A and leaves IP equal to the genome length.
C2_Original ==
  [][(IsCycle /\ IsResetState /\ genome \in {<<ID_Const>>, <<ID_Const, 0>>})
       => /\ stacks' = [stacks EXCEPT ![0] = Push(stacks[0], 1)]
          /\ heads'[HEAD_IP] = Len(genome)]_vars

\* C2 amended: one cycle from the reset state of genome "g" or "ga" pushes 1
\* onto stack A and leaves IP = 3 for both genomes: each of Const's two
\* GetArg calls whose read falls beyond the genome end reads 0 (Nop-A) and
\* moves IP forward.
C2_ConstThenIP3 ==
  [][(IsCycle /\ IsResetState /\ genome \in {<<ID_Const>>, <<ID_Const, 0>>})
       => /\ stacks' = [stacks EXCEPT ![0] = Push(stacks[0], 1)]
          /\ heads' = [heads EXCEPT ![HEAD_IP] = 3]
          /\ UNCHANGED <<genome, offspring, memory, error_count, fault>>]_vars

\* The state after the single Const cycle on genome "g".
C2_Witness ==
  /\ cycles = 1 /\ inst_id = ID_Const /\ genome = <<ID_Const>>
  /\ heads[HEAD_IP] = 3
  /\ stacks[0].stack[0] = 1 /\ stacks[0].stack_pos = 1

\* C3 as stated: a cycle whose byte at IP is outside [0, size) dispatches the
\* registered instruction with id (byte mod size) and does not fault.
C3_FoldsIntoRange ==
  [][(IsCycle /\ ReadIP(VM) >= NUM_INSTS)
       => /\ ~fault'
          /\ VMNext = Execute(AdvanceIP(VM), ReadIP(VM) % NUM_INSTS, "continue")]_vars

\* C4: a cycle whose opcode at IP is one of the six nops sets IP to IP + 1
\* and changes nothing else.
C4_NopInert ==
  [][(IsCycle /\ ReadIP(VM) < NUM_NOPS)
       => /\ heads' = [heads EXCEPT ![HEAD_IP] = heads[HEAD_IP] + 1]
          /\ UNCHANGED <<genome, memory, stacks, offspring, error_count, fault>>]_vars

\* The state after a cycle that executed the Nop-D at position 0.
C4_Witness ==
  /\ cycles = 1 /\ inst_id = 3 /\ heads[HEAD_IP] = 1
  /\ Len(genome) >= 1 /\ genome[1] = 3

\* C5 as stated: in every reachable state 1 <= |G| <= MAX_GENOME_SIZE.
C5_GenomeLengthBounds ==
  1 <= Len(genome) /\ Len(genome) <= MAX_GENOME_SIZE

\* sp - 1 on a 16-slot ring.
DecSp(sp) == (sp + STACK_DEPTH - 1) % STACK_DEPTH

\* What a DivideCell at IP selects, read off the state before the cycle: the
\* heads named by its first and second argument (defaults G_READ, G_WRITE),
\* and the values of head1 and head2 at the geometry test.  head1 and head2
\* are references to the two heads: they are swapped when head2 < head1, and
\* head2 is then clamped to |G|.  When both arguments name one head the two
\* references are one object, so the clamp changes head1 as well.
DivideSel ==
  LET a1 == GetArg(AdvanceIP(VM), HEAD_G_READ)
      a2 == GetArg(a1.vm, HEAD_G_WRITE)
      pa == a2.vm.heads[a1.val]
      pb == a2.vm.heads[a2.val]
      lo == IF ULess(pb, pa) THEN pb ELSE pa
      hi == IF ULess(pb, pa) THEN pa ELSE pb
      clamped == IF ULess(Len(genome), hi) THEN Len(genome) ELSE hi
  IN  [first |-> a1.val, second |-> a2.val,
       h1 |-> IF a1.val = a2.val THEN clamped ELSE lo,
       h2 |-> clamped]

\* C6: a DivideCell cycle with h1 < h2 and h1 < |G| makes the offspring
\* G[h1..h2) and the genome G[0..h1) ++ G[h2..|G|), sets the head of the
\* second argument to h1 and the head of the first argument to 0, and leaves
\* the error counter alone.
C6_DivideCellSplits ==
  [][(IsCycle /\ ReadIP(VM) = ID_DivideCell
        /\ DivideSel.h1 >= 0 /\ DivideSel.h1 < Len(genome)
        /\ DivideSel.h1 # DivideSel.h2)
       => /\ DivideSel.h1 < DivideSel.h2
          /\ offspring' = SubSeq(genome, DivideSel.h1 + 1, DivideSel.h2)
          /\ genome' = SubSeq(genome, 1, DivideSel.h1)
                         \o SubSeq(genome, DivideSel.h2 + 1, Len(genome))
          /\ heads'[DivideSel.second] = DivideSel.h1
          /\ heads'[DivideSel.first] = 0
          /\ error_count' = error_count]_vars

\* The state after the DivideCell of "EEEHg" (three CopyInst first): the
\* offspring is G[3..8), the genome G[0..3), G_WRITE = 3, G_READ = 0.
C6_Witness ==
  /\ cycles = 4 /\ inst_id = ID_DivideCell /\ error_count = 0
  /\ genome = <<ID_CopyInst, ID_CopyInst, ID_CopyInst>>
  /\ offspring = <<ID_DivideCell, ID_Const, ID_CopyInst, ID_CopyInst, ID_CopyInst>>
  /\ heads[HEAD_G_READ] = 0 /\ heads[HEAD_G_WRITE] = 3

\* C7: a DivideCell cycle with h1 >= |G| or h1 = h2 adds exactly 1 to the
\* error counter and leaves the genome and the offspring buffer unchanged.
C7_DivideCellFails ==
  [][(IsCycle /\ ReadIP(VM) = ID_DivideCell
        /\ (~(DivideSel.h1 >= 0 /\ DivideSel.h1 < Len(genome))
              \/ DivideSel.h1 = DivideSel.h2))
       => /\ error_count' = error_count + 1
          /\ UNCHANGED <<genome, offspring>>]_vars

\* The state after the DivideCell of the program that first moves G_READ to
\* 16 and G_WRITE to 256, both beyond its 12 bytes.
C7_Witness ==
  /\ cycles = 5 /\ inst_id = ID_DivideCell /\ error_count = 1
  /\ Len(genome) = 12 /\ offspring = <<>>
  /\ heads[HEAD_G_READ] = 16 /\ heads[HEAD_G_WRITE] = 12

\* What a Div or Mod at IP pops, read off the state before the cycle: the two
\* source stacks and the divisor Y.
DivSel ==
  LET a1 == GetArg(AdvanceIP(VM), 0)
      a2 == GetArg(a1.vm, a1.val)
      sx == stacks[a1.val]
      sy == stacks[a2.val]
  IN  [X_id |-> a1.val, Y_id |-> a2.val,
       Y |-> IF a1.val = a2.val
             THEN sx.stack[DecSp(DecSp(sx.stack_pos))]
             ELSE sy.stack[DecSp(sy.stack_pos)]]

\* C8: a Div or Mod cycle whose divisor is 0 adds exactly 1 to the error
\* counter, leaves both operands popped (sp of each source stack moved down
\* once per pop) and writes no slot of any stack.
C8_DivByZero ==
  [][(IsCycle /\ ReadIP(VM) \in {ID_Div, ID_Mod} /\ DivSel.Y = 0)
       => /\ error_count' = error_count + 1
          /\ \A s \in 0..(NUM_NOPS - 1) :
               /\ stacks'[s].stack = stacks[s].stack
               /\ stacks'[s].stack_pos =
                    IF s = DivSel.X_id /\ s = DivSel.Y_id
                    THEN DecSp(DecSp(stacks[s].stack_pos))
                    ELSE IF s = DivSel.X_id \/ s = DivSel.Y_id
                    THEN DecSp(stacks[s].stack_pos)
                    ELSE stacks[s].stack_pos
          /\ ~fault']_vars

\* The state after Div Nop-A Nop-B run on A = [5], B = [0]: both stacks are
\* empty again and the error counter is 1.
C8_Witness ==
  /\ cycles = 5 /\ inst_id = ID_Div /\ error_count = 1
  /\ stacks[0].stack[0] = 5 /\ stacks[0].stack_pos = 0
  /\ stacks[1].stack[0] = 0 /\ stacks[1].stack_pos = 0
  /\ genome[14] = ID_Div /\ genome[15] = 0 /\ genome[16] = 1

\* What a Store at IP selects, read off the state before the cycle: the
\* source stack, the head and the head's position when the write happens.
StoreSel ==
  LET a1 == GetArg(AdvanceIP(VM), 0)
      a2 == GetArg(a1.vm, HEAD_M_WRITE)
  IN  [src |-> a1.val, head |-> a2.val, pos |-> a2.vm.heads[a2.val],
       heads |-> a2.vm.heads,
       value |-> stacks[a1.val].stack[DecSp(stacks[a1.val].stack_pos)]]

\* C9: a Store cycle whose head is at a position >= MEM_SIZE leaves the
\* memory unchanged and adds exactly 1 to the error counter; at a position
\* p < MEM_SIZE it writes the popped value to cell p only and counts no
\* error.  Either way the source stack is popped and the head moves by 1.
\* The memory has MEM_SIZE cells after every step.
C9_StoreBounds ==
  [][/\ DOMAIN memory' = 0..(MEM_SIZE - 1)
     /\ (IsCycle /\ ReadIP(VM) = ID_Store)
          => /\ IF StoreSel.pos >= 0 /\ StoreSel.pos < MEM_SIZE
                THEN /\ memory' = [memory EXCEPT ![StoreSel.pos] = StoreSel.value]
                     /\ error_count' = error_count
                ELSE /\ memory' = memory
                     /\ error_count' = error_count + 1
             /\ stacks' = [stacks EXCEPT ![StoreSel.src].stack_pos = DecSp(@)]
             /\ heads' = [StoreSel.heads EXCEPT ![StoreSel.head] = StoreSel.pos + 1]]_vars

\* The state after the first Store of the program that moved M_WRITE to 256.
C9_Witness ==
  /\ cycles = 4 /\ inst_id = ID_Store /\ error_count = 1
  /\ heads[HEAD_M_WRITE] = 257
  /\ \A i \in 0..(MEM_SIZE - 1) : memory[i] = 0
  /\ stacks[0].stack[0] = 16 /\ stacks[0].stack_pos = 0

\* C10 as stated: a cycle whose opcode at IP is a registered instruction
\* completes; it never kills the process.
C10_NoCycleFaults ==
  [][(IsCycle /\ ReadIP(VM) < NUM_INSTS) => ~fault']_vars

\* A step of the driver that is a call of Reset() or Reset(G').
IsResetStep == cycles' = cycles /\ calls' = calls /\ inst_id' = NO_INST

\* C11 as stated: no ProcessInst cycle decreases the error counter, and the
\* counter is 0 right after Reset() or Reset(G').  The second half holds.  The
\* first fails on a cycle whose byte is no registered id: Execute calls
\* whatever funs[id] holds, and when that is Reset, or a ProcessInst that
\* dispatches to it, the cycle sets the counter back to 0.
C11_ErrorMonotone ==
  [][/\ IsCycle => error_count' >= error_count
     /\ IsResetStep => error_count' = 0]_vars

\* The stack a StackPop at IP pops, and the stack a Const at IP pushes on.
StackPopSel == GetArg(AdvanceIP(VM), 0).val
ConstSel == GetArg(GetArg(AdvanceIP(VM), 0).vm, 0).val

\* C12: in every reachable state 0 <= sp < STACK_DEPTH for each of the six
\* stacks; a Pop on a stack with sp = 0 leaves sp = STACK_DEPTH - 1 and a
\* Push on a stack with sp = STACK_DEPTH - 1 leaves sp = 0.
C12_StackBounds ==
  /\ [](\A s \in 0..(NUM_NOPS - 1) :
          stacks[s].stack_pos >= 0 /\ stacks[s].stack_pos < STACK_DEPTH)
  /\ [][/\ (IsCycle /\ ReadIP(VM) = ID_StackPop /\ stacks[StackPopSel].stack_pos = 0)
            => stacks'[StackPopSel].stack_pos = STACK_DEPTH - 1
        /\ (IsCycle /\ ReadIP(VM) = ID_Const
              /\ stacks[ConstSel].stack_pos = STACK_DEPTH - 1)
            => /\ stacks'[ConstSel].stack_pos = 0
               /\ stacks'[ConstSel].stack[STACK_DEPTH - 1] # 0]_vars

\* "Ag" after its two cycles: StackPop took sp of stack A from 0 to 15, and
\* Const wrote slot 15 and took sp back to 0.
C12_Witness ==
  /\ genome = <<ID_StackPop, ID_Const>>
  /\ cycles = 2 /\ inst_id = ID_Const
  /\ stacks[0].stack_pos = 0
  /\ stacks[0].stack[STACK_DEPTH - 1] = 1

\* The number of consecutive nops in the genome from position pos on.
RECURSIVE NopRun(_)
NopRun(pos) ==
  IF pos >= 0 /\ pos < Len(genome) /\ genome[pos + 1] < NUM_NOPS
  THEN 1 + NopRun(pos + 1)
  ELSE 0

\* The positions of the Scopes whose immediately following nops include t.
ScopesFor(t) ==
  {p \in 0..(Len(genome) - 1) :
     /\ genome[p + 1] = ID_Scope
     /\ \E q \in (p + 1)..(p + NopRun(p + 1)) : genome[q + 1] = t}

\* The target of a Break or Continue at IP and the IP after its argument.
ScanSel ==
  LET a == GetArg(AdvanceIP(VM), 0)
  IN  [target |-> a.val, from |-> a.vm.heads[HEAD_IP]]

\* C13 as stated: a Break cycle leaves IP just past the nops trailing the
\* first Scope for its target at or after the IP that follows its argument
\* (p + 1 + number of trailing nops), and at |G| when there is none.
C13_BreakPastScope ==
  [][(IsCycle /\ ReadIP(VM) = ID_Break)
       => LET found == {p \in ScopesFor(ScanSel.target) : p >= ScanSel.from}
          IN  IF found # {}
              THEN \E p \in found :
                     /\ \A q \in found : p <= q
                     /\ heads'[HEAD_IP] = p + 1 + NopRun(p + 1)
              ELSE heads'[HEAD_IP] = Len(genome)]_vars

\* C14: a Continue cycle moves IP back by 2 from the IP that follows its
\* argument and scans backwards; it leaves IP at p + 1 + (nops trailing p)
\* for the nearest Scope p for its target at or before that position, and at
\* 0 when there is none or when the starting position is not inside the
\* genome.
C14_ContinueToScope ==
  [][(IsCycle /\ ReadIP(VM) = ID_Continue)
       => LET start == ScanSel.from - 2
              found == IF start >= 0 /\ start < Len(genome)
                       THEN {p \in ScopesFor(ScanSel.target) : p <= start}
                       ELSE {}
          IN  IF found # {}
              THEN \E p \in found :
                     /\ \A q \in found : q <= p
                     /\ heads'[HEAD_IP] = p + 1 + NopRun(p + 1)
              ELSE heads'[HEAD_IP] = 0]_vars

\* "xaxagy" after its four cycles: the Continue at position 5 went back to
\* the Scope at position 2, the nearer of the two Scopes for Nop-A, and IP
\* is 4, past that Scope's nop.
C14_Witness ==
  /\ genome = <<ID_Scope, 0, ID_Scope, 0, ID_Const, ID_Continue>>
  /\ cycles = 4 /\ inst_id = ID_Continue
  /\ heads[HEAD_IP] = 4
  /\ stacks[0].stack[0] = 1 /\ stacks[0].stack_pos = 1

\* The heads that index the genome and the heads that index the memory.
GenomeHeads == {HEAD_IP, HEAD_G_READ, HEAD_G_WRITE, HEAD_FLOW}
MemoryHeads == {HEAD_M_READ, HEAD_M_WRITE}

\* The head a Load at IP reads memory through, and the two heads a CopyInst
\* at IP reads and writes the genome through.
LoadSel == GetArg(AdvanceIP(VM), HEAD_M_READ).val
CopySel ==
  LET a1 == GetArg(AdvanceIP(VM), HEAD_G_READ)
      a2 == GetArg(a1.vm, HEAD_G_WRITE)
  IN  [read_head |-> a1.val, write_head |-> a2.val, heads |-> a2.vm.heads]

\* C15 as stated: whatever its nop arguments, a Store or a Load indexes the
\* memory through M_READ or M_WRITE only, and a CopyInst indexes the genome
\* through IP, G_READ, G_WRITE or FLOW only.
C15_HeadsKeepBuffer ==
  [][IsCycle =>
       /\ ReadIP(VM) = ID_Store => StoreSel.head \in MemoryHeads
       /\ ReadIP(VM) = ID_Load => LoadSel \in MemoryHeads
       /\ ReadIP(VM) = ID_CopyInst =>
            /\ CopySel.read_head \in GenomeHeads
            /\ CopySel.write_head \in GenomeHeads]_vars

\* C16: a call of Reset() or Reset(G') leaves IP, G_READ, M_READ, M_WRITE
\* and FLOW at 0 and G_WRITE at the length of the genome it leaves, every
\* slot and the sp of each of the six stacks at 0, the error counter at 0 and
\* the offspring empty; Reset() keeps the genome and Reset(G') installs G'.
\* A further Reset() changes nothing.
C16_ResetState ==
  [][IsResetStep =>
       /\ heads' = [h \in 0..(NUM_NOPS - 1) |->
                      IF h = HEAD_G_WRITE THEN Len(genome') ELSE 0]
       /\ \A s \in 0..(NUM_NOPS - 1) :
            /\ stacks'[s].stack_pos = 0
            /\ \A i \in 0..(STACK_DEPTH - 1) : stacks'[s].stack[i] = 0
       /\ error_count' = 0
       /\ offspring' = <<>>
       /\ (genome' = genome \/ genome' \in ResetGenomes)
       /\ ResetVM(VMNext) = VMNext]_vars

\* "Eg" after one cycle (CopyInst appended a byte and moved IP, G_READ and
\* G_WRITE) and a Reset(): the grown genome is kept and G_WRITE is its length.
C16_Witness ==
  /\ genome = <<ID_CopyInst, ID_Const, ID_CopyInst>>
  /\ cycles = 1 /\ inst_id = NO_INST
  /\ heads[HEAD_IP] = 0 /\ heads[HEAD_G_READ] = 0 /\ heads[HEAD_G_WRITE] = 3
  /\ error_count = 0 /\ offspring = <<>>

\* C17 as stated: right after Reset() or Reset(G') every one of the
\* MEM_SIZE memory cells is 0.
C17_ResetClearsMemory ==
  [][IsResetStep => \A i \in 0..(MEM_SIZE - 1) : memory'[i] = 0]_vars

\* n applications of Inst_CopyInst.
CopyTimes(vm, n) ==
  LET after[i \in 0..n] == IF i = 0 THEN vm ELSE Inst_CopyInst(after[i - 1])
  IN  after[n]

\* C18: a CopyInst cycle that uses G_READ and G_WRITE reads v at G_READ
\* (0 beyond the end) and inserts it at G_WRITE (appends when G_WRITE >= |G|):
\* |G| grows by 1, no byte is overwritten, and both heads move by 1.  From a
\* reset state (G_READ = 0, G_WRITE = |G| = L) n <= L executions of CopyInst
\* with default heads give G ++ G[0..n), G_READ = n and G_WRITE = L + n
\* (followed for n <= MaxCopies).
C18_CopyInstInserts ==
  /\ [][(IsCycle /\ ReadIP(VM) = ID_CopyInst
           /\ CopySel.read_head = HEAD_G_READ /\ CopySel.write_head = HEAD_G_WRITE)
          => LET r == heads[HEAD_G_READ]
                 w == heads[HEAD_G_WRITE]
                 v == IF r >= 0 /\ r < Len(genome) THEN genome[r + 1] ELSE 0
             IN  /\ genome' = IF w >= 0 /\ w < Len(genome)
                              THEN SubSeq(genome, 1, w) \o <<v>>
                                     \o SubSeq(genome, w + 1, Len(genome))
                              ELSE genome \o <<v>>
                 /\ Len(genome') = Len(genome) + 1
                 /\ heads'[HEAD_G_READ] = r + 1
                 /\ heads'[HEAD_G_WRITE] = w + 1]_vars
  /\ []((IsResetState /\ genome # <<>> /\ genome[1] >= NUM_NOPS)
          => \A n \in 0..MaxCopies :
               n <= Len(genome) =>
               LET vm == CopyTimes(VM, n)
               IN  /\ vm.genome = genome \o SubSeq(genome, 1, n)
                   /\ vm.heads[HEAD_G_READ] = n
                   /\ vm.heads[HEAD_G_WRITE] = Len(genome) + n)

\* "EEE" after its three cycles is "EEEEEE" with G_READ = 3 and G_WRITE = 6.
C18_Witness ==
  /\ genome = <<ID_CopyInst, ID_CopyInst, ID_CopyInst,
                ID_CopyInst, ID_CopyInst, ID_CopyInst>>
  /\ cycles = 3 /\ inst_id = ID_CopyInst
  /\ heads[HEAD_IP] = 3 /\ heads[HEAD_G_READ] = 3 /\ heads[HEAD_G_WRITE] = 6

\* The bytes at IP are Const Nop-A, StackPop Nop-A.
ConstPopAtIP ==
  /\ ~fault
  /\ heads[HEAD_IP] >= 0 /\ heads[HEAD_IP] + 4 <= Len(genome)
  /\ SubSeq(genome, heads[HEAD_IP] + 1, heads[HEAD_IP] + 4)
       = <<ID_Const, 0, ID_StackPop, 0>>

\* The stacks after the two cycles that run Const Nop-A and StackPop Nop-A
\* from the current state.
StacksAfterConstPop == Cycle(Cycle(VM, "continue"), "continue").stacks

\* C19 as stated: Const Nop-A then StackPop Nop-A leaves every stack, sp and
\* all 16 slots, as it was before the two instructions.
C19_Original == ConstPopAtIP => StacksAfterConstPop = stacks

\* C19 amended: Const Nop-A then StackPop Nop-A leaves the sp of stack A and
\* every other stack as before, and every slot of stack A as before except
\* the slot at sp, which now holds the constant 1.
C19_ConstPopRestoresSp ==
  ConstPopAtIP =>
    \A s \in 0..(NUM_NOPS - 1) :
      /\ StacksAfterConstPop[s].stack_pos = stacks[s].stack_pos
      /\ \A i \in 0..(STACK_DEPTH - 1) :
           StacksAfterConstPop[s].stack[i] =
             IF s = 0 /\ i = stacks[0].stack_pos THEN const_vals[1]
             ELSE stacks[s].stack[i]

\* "gbaAagaAa" after its four cycles: the second Const / StackPop pair found
\* 2 in slot 0 of stack A and left 1 there, with sp back at 0.
C19_Witness ==
  /\ genome = <<ID_Const, 1, 0, ID_StackPop, 0, ID_Const, 0, ID_StackPop, 0>>
  /\ cycles = 4 /\ inst_id = ID_StackPop
  /\ stacks[0].stack_pos = 0 /\ stacks[0].stack[0] = 1

\* IP is at or beyond the end of the genome (as the unsigned position it is).
IPPastEnd(h, g) == ~(h[HEAD_IP] >= 0 /\ h[HEAD_IP] < Len(g))

\* C20 as stated: a cycle that starts with IP >= |G| reads Nop-A, moves IP to
\* IP + 1 and changes nothing else, and it ends with IP >= |G| again, so that
\* every later cycle is such a cycle.
C20_PastEndFrozen ==
  [][(IsCycle /\ IPPastEnd(heads, genome))
       => /\ ReadIP(VM) = 0
          /\ heads' = [heads EXCEPT ![HEAD_IP] = @ + 1]
          /\ UNCHANGED <<genome, offspring, memory, stacks, error_count, fault>>
          /\ IPPastEnd(heads', genome')]_vars

\* Some registered entry of the InstSet has the symbol / the name.
RegisteredSymbol(iset, symbol) ==
  \E i \in 1..num_insts(iset) : iset.info[i].symbol = symbol

RegisteredName(iset, name) ==
  \E i \in 1..num_insts(iset) : iset.info[i].name = name

\* C21: GetID(name) and GetID(symbol) return the id of a registered
\* instruction that has the name or symbol, and NULL_ID when no registered
\* instruction has it (for the default set, the empty name and '?' included).
C21_LookupContract ==
  /\ reg.op = "GetIDName" =>
       IF RegisteredName(reg.iset, reg.name)
       THEN /\ reg.id < num_insts(reg.iset)
            /\ reg.iset.info[reg.id + 1].name = reg.name
       ELSE reg.id = NULL_ID
  /\ reg.op = "GetIDSymbol" =>
       IF RegisteredSymbol(reg.iset, reg.symbol)
       THEN /\ reg.id < num_insts(reg.iset)
            /\ reg.iset.info[reg.id + 1].symbol = reg.symbol
       ELSE reg.id = NULL_ID

\* C22: for a sequence of symbols of registered instructions, BuildGenome
\* returns one byte per character, byte i being the id of a registered
\* instruction whose symbol is character i, and ToSequence of that genome is
\* the sequence again.
C22_RoundTrip ==
  (\A n \in 1..Len(reg.sequence) : RegisteredSymbol(reg.iset, reg.sequence[n])) =>
    /\ reg.op \in {"BuildGenome", "ToSequence"} =>
         /\ Len(reg.genome) = Len(reg.sequence)
         /\ \A n \in 1..Len(reg.sequence) :
              /\ reg.genome[n] < num_insts(reg.iset)
              /\ reg.iset.info[reg.genome[n] + 1].symbol = reg.sequence[n]
    /\ reg.op = "ToSequence" => reg.out = reg.sequence

\* "LM" on the default set extended by one instruction: ids 37 and 38, and
\* "LM" back.
C22_Witness ==
  /\ reg.op = "ToSequence"
  /\ reg.sequence = <<76, 77>>
  /\ reg.genome = <<37, 38>>
  /\ reg.out = <<76, 77>>

\* The step is an AddNopInst on an InstSet that holds a non-nop instruction.
LateNopCall ==
  /\ reg'.op = "AddNopInst"
  /\ reg.iset.num_nops # num_insts(reg.iset)

\* C23: in every registry state the nops (the entries without a handler) are
\* exactly the ids below num_nops, and an AddNopInst made after a non-nop
\* AddInst is rejected: it ends in an error and registers nothing.
C23_NopsFirst ==
  /\ [](~reg.iset.aborted =>
          \A i \in 0..(num_insts(reg.iset) - 1) :
            (reg.iset.funs[i + 1] = "nullptr") <=> (i < reg.iset.num_nops))
  /\ [][LateNopCall =>
          /\ reg'.iset.aborted
          /\ reg'.iset.info = reg.iset.info
          /\ reg'.iset.num_nops = reg.iset.num_nops]_vars

\* The machine as it would start in a process of its own: the static of
\* AtScopeLimit not yet initialised.
OwnProcess(vm) == [vm EXCEPT !.inst_scope_id = NO_SCOPE]

\* The fields of the machine itself.
Fields(vm) ==
  [genome |-> vm.genome, offspring |-> vm.offspring, memory |-> vm.memory,
   heads |-> vm.heads, stacks |-> vm.stacks, error_count |-> vm.error_count]

\* C24: the state after a ProcessInst cycle is a function of the machine's own
\* fields and its InstSet: it is the state the same machine reaches in a
\* process where no other machine or InstSet ever existed.
C24_OwnStateOnly ==
  [][IsCycle /\ ~fault' =>
       \E ub \in CycleOutcomes(VM) :
         Fields(VMNext) = Fields(Cycle(OwnProcess(VM), ub))]_vars

\* The Break at IP finds a Scope for its target at or after the position that
\* follows its argument; BreakTo is the first such Scope.
BreakFinds == {p \in ScopesFor(ScanSel.target) : p >= ScanSel.from} # {}

BreakTo ==
  CHOOSE p \in ScopesFor(ScanSel.target) :
    /\ p >= ScanSel.from
    /\ \A q \in ScopesFor(ScanSel.target) : q >= ScanSel.from => p <= q

\* Scenario 5: Scope Nop-A, Const Nop-A, Break Nop-A, Const Nop-B, Scope Nop-A.
Scenario5 == <<ID_Scope, 0, ID_Const, 0, ID_Break, 0, ID_Const, 1, ID_Scope, 0>>

\* C25: a Break cycle that finds a matching Scope leaves IP on that Scope, so
\* nothing between the Break's argument and the Scope is dispatched, and the
\* cycle of a Scope does nothing but move IP past the Scope and its trailing
\* nops: the next instruction dispatched that is neither is the first one
\* after those nops.  In scenario 5 stack B is never pushed and, once the
\* Break has run, stack A holds the single value 1.
C25_BreakFallsThrough ==
  /\ [](genome = Scenario5 =>
          /\ stacks[1] = NewStack
          /\ heads[HEAD_IP] >= 6 => stacks[0] = Push(NewStack, 1))
  /\ [][(IsCycle /\ ReadIP(VM) = ID_Break /\ BreakFinds
           => /\ heads'[HEAD_IP] = BreakTo
              /\ ReadIP(VMNext) = ID_Scope)
        /\ (IsCycle /\ ReadIP(VM) = ID_Scope /\ ~fault'
           => /\ heads'[HEAD_IP] = heads[HEAD_IP] + 1 + NopRun(heads[HEAD_IP] + 1)
              /\ ReadIP(VMNext) >= NUM_NOPS \/ heads'[HEAD_IP] >= Len(genome)
              /\ \A h \in 1..(NUM_NOPS - 1) : heads'[h] = heads[h]
              /\ UNCHANGED <<genome, offspring, memory, stacks, error_count>>)]_vars

\* Scenario 5 after its four cycles: the Break went to the Scope at 8, the
\* Scope's cycle moved IP to 10; stack A holds 1 and stack B is untouched.
C25_Witness ==
  /\ genome = Scenario5
  /\ cycles = 4 /\ inst_id = ID_Scope
  /\ heads[HEAD_IP] = 10
  /\ stacks[0] = Push(NewStack, 1)
  /\ stacks[1] = NewStack

\* C26: a DivideCell cycle that fails (h1 >= |G| or h1 = h2) changes nothing
\* but the error counter and IP: every head other than IP, the two selected
\* ones included, is where it was before the cycle, and IP is just past the
\* opcode and its nop arguments.
C26_FailedDivideKeepsHeads ==
  [][(IsCycle /\ ReadIP(VM) = ID_DivideCell
        /\ (~(DivideSel.h1 >= 0 /\ DivideSel.h1 < Len(genome))
              \/ DivideSel.h1 = DivideSel.h2))
       => LET a1 == GetArg(AdvanceIP(VM), HEAD_G_READ)
              a2 == GetArg(a1.vm, HEAD_G_WRITE)
          IN  /\ heads' = a2.vm.heads
              /\ UNCHANGED <<genome, offspring, memory, stacks>>]_vars

\* C27: the scans of a cycle end inside the genome or at its end, after at
\* most |G| positions.  A Break whose scan starts at `from` inside the genome ends on
\* a Scope for its target at a position from..|G|-1 or at |G|, having visited
\* at most |G| - from positions; started outside the genome it visits none.
\* A Continue whose scan starts at start = from - 2 inside the genome ends
\* behind a Scope for its target at a position 0..start or at 0, having
\* visited at most start + 1 positions; started outside the genome (IP - 2
\* below 0 or IP at or beyond |G|) it visits none and IP is 0.  The cycle of
\* a Scope ends at or before |G|.
C27_ScansTerminate ==
  [][(IsCycle /\ ReadIP(VM) = ID_Break
           => LET from == ScanSel.from
                  post == heads'[HEAD_IP]
                  visits == IF post < Len(genome) THEN post - from + 1
                            ELSE Len(genome) - from
              IN  IF from >= 0 /\ from < Len(genome)
                  THEN /\ post >= from /\ post <= Len(genome)
                       /\ post < Len(genome) => post \in ScopesFor(ScanSel.target)
                       /\ visits >= 1 /\ visits <= Len(genome)
                  ELSE post = from)
        /\ (IsCycle /\ ReadIP(VM) = ID_Continue
           => LET start == ScanSel.from - 2
                  post == heads'[HEAD_IP]
              IN  IF start >= 0 /\ start < Len(genome)
                  THEN \/ post = 0
                       \/ \E p \in ScopesFor(ScanSel.target) :
                            /\ p <= start
                            /\ post = p + 1 + NopRun(p + 1)
                            /\ post <= Len(genome)
                            /\ start - p + 1 <= Len(genome)
                  ELSE post = 0)
        /\ (IsCycle /\ ReadIP(VM) = ID_Scope
           => heads'[HEAD_IP] <= Len(genome))]_vars

\* "yg": the Continue at position 0 has no argument, its scan would start at
\* 1 - 2, which is not a position of the genome; IP is 0 after the cycle.
\* "z": the Break at position 0 reads its argument beyond the end and starts
\* at 2 >= |G|.
C27_Witness ==
  \/ /\ genome = <<ID_Continue, ID_Const>>
     /\ cycles = 1 /\ inst_id = ID_Continue
     /\ heads[HEAD_IP] = 0
  \/ /\ genome = <<ID_Break>>
     /\ cycles = 1 /\ inst_id = ID_Break
     /\ heads[HEAD_IP] = 2

\* C28: on every stack, Pop right after Push(v) returns v with stack_pos as
\* before the Push, and Top is the value Pop returns; after k pushes on a
\* reset stack, 16 < k <= 32, none of the first k - 16 values is in a slot,
\* the j-th pop of 16 returns the value of push k - j + 1, and the 17th pop
\* returns the value of push k again.
C28_StackRing ==
  LET k == Len(ring.pushed)
      j == ring.npops
  IN  /\ \A v \in {-1, 7, k + 1} :
           /\ Pop(Push(ring.stk, v)).val = v
           /\ Pop(Push(ring.stk, v)).stk.stack_pos = ring.stk.stack_pos
      /\ Top(ring.stk) = Pop(ring.stk).val
      /\ ring.op = "Top" => ring.top = Pop(ring.stk).val
      /\ (k > STACK_DEPTH /\ k <= 2 * STACK_DEPTH) =>
           /\ j = 0 =>
                \A i \in 1..(k - STACK_DEPTH) :
                  \A slot \in 0..(STACK_DEPTH - 1) :
                    ring.stk.stack[slot] # ring.pushed[i]
           /\ (j >= 1 /\ j <= STACK_DEPTH) => ring.popped = ring.pushed[k - j + 1]
           /\ j = STACK_DEPTH + 1 => ring.popped = ring.pushed[k]

\* 20 pushes (1..20), then 17 pops: the 16th returned 5, the value of push
\* k - 15, and the 17th returned 20 again.
C28_Witness ==
  /\ Len(ring.pushed) = 20
  /\ ring.npops = STACK_DEPTH + 1
  /\ ring.popped = 20
  /\ ring.stk.stack_pos = 3

\* The genome byte at a position, as ReadGenome gives it: 0 beyond the end.
GenomeByte(pos) == IF pos >= 0 /\ pos < Len(genome) THEN genome[pos + 1] ELSE 0

\* The stacks with the top of stack s popped, and the value that pop returns.
PopOf(stks, s) == [stks EXCEPT ![s].stack_pos = DecSp(@)]
TopOf(stks, s) == stks[s].stack[DecSp(stks[s].stack_pos)]

\* The instructions of C29 and what each pushes for the operands X and Y.
BinaryOps == {ID_Add, ID_Sub, ID_Mult, ID_TestLess, ID_TestEqu, ID_Nand, ID_Xor}

BinaryResult(id, X, Y) ==
  CASE id = ID_Add -> AddW(X, Y)
    [] id = ID_Sub -> SubW(X, Y)
    [] id = ID_Mult -> MultW(X, Y)
    [] id = ID_TestLess -> IF X < Y THEN 1 ELSE 0
    [] id = ID_TestEqu -> IF X = Y THEN 1 ELSE 0
    [] id = ID_Nand -> BitNot(BitAnd(X, Y))
    [] id = ID_Xor -> BitXor(X, Y)

\* C29: a cycle of Add, Sub, Mult, TestLess, TestEqu, Nand or Xor at ip reads
\* up to three nops behind the opcode: the first names X_id (default stack A),
\* the second the stack of Y (default X_id), the third the stack of the
\* result (default X_id); it pops X from X_id, then Y, then pushes the result,
\* and changes nothing else but IP (with no nop behind the opcode: two pops
\* from A and one push on A).  After Const Nop-A, Const Nop-A, Add the top of
\* stack A is 2 and the stacks B..F are all-zero with stack_pos 0.
C29_BinaryDecode ==
  /\ []((genome = <<ID_Const, 0, ID_Const, 0, ID_Add>> /\ inst_id = ID_Add) =>
          /\ Top(stacks[0]) = 2
          /\ \A s \in 1..(NUM_NOPS - 1) : stacks[s] = NewStack)
  /\ [][(IsCycle /\ ReadIP(VM) \in BinaryOps) =>
          LET ip == heads[HEAD_IP]
              b1 == GenomeByte(ip + 1)
              X_id == IF b1 < NUM_NOPS THEN b1 ELSE 0
              p2 == IF b1 < NUM_NOPS THEN ip + 2 ELSE ip + 1
              b2 == GenomeByte(p2)
              Y_id == IF b2 < NUM_NOPS THEN b2 ELSE X_id
              p3 == IF b2 < NUM_NOPS THEN p2 + 1 ELSE p2
              b3 == GenomeByte(p3)
              R_id == IF b3 < NUM_NOPS THEN b3 ELSE X_id
              p4 == IF b3 < NUM_NOPS THEN p3 + 1 ELSE p3
              X == TopOf(stacks, X_id)
              s1 == PopOf(stacks, X_id)
              Y == TopOf(s1, Y_id)
              s2 == PopOf(s1, Y_id)
          IN  /\ stacks' = [s2 EXCEPT ![R_id] = Push(@, BinaryResult(ReadIP(VM), X, Y))]
              /\ heads' = [heads EXCEPT ![HEAD_IP] = p4]
              /\ b1 >= NUM_NOPS =>
                   /\ \A s \in 1..(NUM_NOPS - 1) : stacks'[s] = stacks[s]
                   /\ stacks'[0].stack_pos = DecSp(stacks[0].stack_pos)
              /\ UNCHANGED <<genome, offspring, memory, error_count, fault>>]_vars

\* "gagak" after its three cycles: 1 + 1 on stack A.
C29_Witness ==
  /\ genome = <<ID_Const, 0, ID_Const, 0, ID_Add>>
  /\ cycles = 3 /\ inst_id = ID_Add
  /\ stacks[0].stack[0] = 2 /\ stacks[0].stack_pos = 1
  /\ \A s \in 1..(NUM_NOPS - 1) : stacks[s] = NewStack

\* C30: an If cycle at ip reads the stack id from the nop behind the opcode
\* (default A), pops X from that stack and leaves IP one byte further than the
\* end of its argument exactly when X = 0; an IfNot cycle does so exactly when
\* X # 0.  Nothing else changes: no other head, no other stack, not the error
\* counter, the memory, the genome or the offspring.
C30_IfSkipsOneByte ==
  [][(IsCycle /\ ReadIP(VM) \in {ID_If, ID_IfNot}) =>
       LET ip == heads[HEAD_IP]
           b1 == GenomeByte(ip + 1)
           X_id == IF b1 < NUM_NOPS THEN b1 ELSE 0
           after == IF b1 < NUM_NOPS THEN ip + 2 ELSE ip + 1
           X == TopOf(stacks, X_id)
           skip == IF ReadIP(VM) = ID_If THEN X = 0 ELSE X # 0
       IN  /\ heads' = [heads EXCEPT ![HEAD_IP] = IF skip THEN after + 1 ELSE after]
           /\ stacks' = PopOf(stacks, X_id)
           /\ UNCHANGED <<genome, offspring, memory, error_count, fault>>]_vars

\* Const Nop-A, IfNot, Const Nop-B: the IfNot at 2 popped 1 and skipped the
\* one byte at 3, the Const; the cycle after it ran the Nop-B at 4 as an
\* instruction, so nothing was pushed.  Const Nop-A, If, Const Nop-B: the If
\* popped 1 and did not skip, and the Const at 3 pushed 2.
C30_Witness ==
  \/ /\ genome = <<ID_Const, 0, ID_IfNot, ID_Const, 1>>
     /\ cycles = 3 /\ inst_id = 1
     /\ heads[HEAD_IP] = 5
     /\ stacks[0].stack_pos = 0 /\ stacks[0].stack[0] = 1
  \/ /\ genome = <<ID_Const, 0, ID_If, ID_Const, 1>>
     /\ cycles = 3 /\ inst_id = ID_Const
     /\ heads[HEAD_IP] = 5
     /\ stacks[0].stack_pos = 1 /\ stacks[0].stack[0] = 2

\* The DivideCell at IP passes its geometry test: h1 is inside the genome and
\* the ordered, clamped heads differ.
DivideSplits ==
  /\ DivideSel.h1 >= 0 /\ DivideSel.h1 < Len(genome)
  /\ DivideSel.h1 # DivideSel.h2

\* C31 as stated: the write frame of the machine, the instruction a cycle
\* executes being the one its byte at IP names.  A memory cell changes only in
\* a cycle that executes Store with its head inside the memory, and no Reset changes
\* one; the genome changes only in a cycle that executes CopyInst or a
\* DivideCell that passes its geometry test, or by Reset(G'); the offspring
\* buffer changes only in a cycle that executes such a DivideCell or by a
\* Reset.  No cycle reads the offspring buffer: with any other content in it,
\* the cycle leaves every other field as it does now, and a writing cycle
\* leaves the same offspring.
C31_WriteFrame ==
  [][/\ memory' # memory =>
          /\ IsCycle /\ ReadIP(VM) = ID_Store
          /\ StoreSel.pos >= 0 /\ StoreSel.pos < MEM_SIZE
     /\ genome' # genome =>
          \/ IsCycle /\ ReadIP(VM) = ID_CopyInst
          \/ IsCycle /\ ReadIP(VM) = ID_DivideCell /\ DivideSplits
          \/ IsResetStep
     /\ offspring' # offspring =>
          \/ IsCycle /\ ReadIP(VM) = ID_DivideCell /\ DivideSplits
          \/ IsResetStep
     /\ IsCycle =>
          \A o \in {<<>>, <<ID_DivideCell>>, <<ID_Const, 1>>} :
          \A ub \in CycleOutcomes(VM) :
            LET own == Cycle(VM, ub)
                other == Cycle([VM EXCEPT !.offspring = o], ub)
            IN  /\ [other EXCEPT !.offspring = own.offspring] = own
                /\ other.offspring \in {o, own.offspring}
                /\ other.offspring # o =>
                     ReadIP(VM) = ID_DivideCell /\ DivideSplits]_vars

\* C32 as stated: a ProcessInst cycle adds 0 or 1 to the error counter, and it
\* adds 1 only when the byte at IP is Div or Mod with divisor 0, Store with its head
\* outside the memory, or DivideCell failing its geometry test.  A Continue,
\* Break, Load or CopyInst cycle never changes the counter, whatever its scan
\* finds and wherever its heads are.
C32_ErrorSources ==
  [][IsCycle =>
       /\ error_count' \in {error_count, error_count + 1}
       /\ error_count' # error_count =>
            \/ ReadIP(VM) \in {ID_Div, ID_Mod} /\ DivSel.Y = 0
            \/ ReadIP(VM) = ID_Store
                 /\ ~(StoreSel.pos >= 0 /\ StoreSel.pos < MEM_SIZE)
            \/ ReadIP(VM) = ID_DivideCell /\ ~DivideSplits
       /\ ReadIP(VM) \in {ID_Continue, ID_Break, ID_Load, ID_CopyInst}
            => error_count' = error_count]_vars

\* C33: the default set built by BuildInstSet has exactly 38 entries, the six
\* nops at ids 0..5.  For every id in 0..37 the switch of ProcessInst(id)
\* selects the handler registered under that id (none for the nops).  From
\* every state the machine reaches through cycles, resets and a client's
\* calls of ProcessInst(id), Execute and the handlers, the switch and
\* inst_set.Execute lead to the same state for each id in 0..37; and in every
\* cycle that dispatches a byte below 38 the state after the cycle is the one
\* either mechanism leads to for that byte.
C33_DispatchAgree ==
  /\ [](/\ num_insts(BuildInstSet) = NUM_INSTS
        /\ BuildInstSet.num_nops = NUM_NOPS
        /\ ~BuildInstSet.aborted
        /\ \A id \in 0..(NUM_INSTS - 1) :
             /\ BuildInstSet.info[id + 1].id = id
             /\ IF id < NUM_NOPS
                THEN /\ BuildInstSet.info[id + 1].name = NopNames[id + 1]
                     /\ BuildInstSet.funs[id + 1] = "nullptr"
                     /\ SwitchHandler(id) = "break"
                ELSE SwitchHandler(id) = BuildInstSet.funs[id + 1]
        /\ \A id \in 0..(NUM_INSTS - 1) : \A ub \in UBOutcomes :
             ProcessInstId(VM, id, ub) = ExecuteIn(BuildInstSet, VM, id, ub))
  /\ [][(IsCycle /\ ReadIP(VM) < NUM_INSTS) =>
          \E ub \in UBOutcomes :
            /\ VMNext = ProcessInstId(AdvanceIP(VM), ReadIP(VM), ub)
            /\ VMNext = ExecuteIn(BuildInstSet, AdvanceIP(VM), ReadIP(VM), ub)]_vars

\* "ga" after one cycle and a client's call of ProcessInst(6): the cycle
\* pushed 1 on stack A and left IP at 3, the switch ran Const again, which
\* read its arguments beyond the end of the genome, pushed a second 1 and
\* left IP at 5; the driver's count and the last id read are untouched.
C33_Witness ==
  /\ genome = <<ID_Const, 0>>
  /\ cycles = 1 /\ calls = 1 /\ inst_id = ID_Const
  /\ heads[HEAD_IP] = 5
  /\ stacks[0].stack[0] = 1 /\ stacks[0].stack[1] = 1
  /\ stacks[0].stack_pos = 2
  /\ ~fault

====
